---- MODULE Spec2Model ----
(***************************************************************************)
(* The asynchronous selection-set resolver of juniper                      *)
(* (juniper/src/types/async_await.rs) as a state machine: one frame per    *)
(* running resolve_selection_set_into_async_recursive call, the field and  *)
(* fragment futures it pushed into its FuturesOrdered, and the error sink  *)
(* shared by the whole request.                                            *)
(***************************************************************************)
EXTENDS Integers, Sequences, FiniteSets, TLC

\* Longest selection set the documents of the model hold.
MaxSel == 3

VARIABLES doc, frames, errors

\* A response of juniper/src/http/mod.rs, what the method called on it
\* returned, and the envelopes the returned sequence has yielded so far.
VARIABLES response, output, yielded

\* The GraphQLRequest an HTTP integration received, if any.
VARIABLES request

httpVars == <<response, output, yielded, request>>

\* What the schema holds for the instance's type, and the panic that
\* aborted the request, if any.
VARIABLES schema, panic

\* Which resolver runs: "query" is resolve_selection_set_into_async_recursive,
\* "stream" is resolve_selection_set_into_stream_recursive.
VARIABLES resolver

\* The GraphQLOverWs session (its phase and the calls its handler received)
\* and the type names of the requests it has handled.
VARIABLES session, handled

wsVars == <<session, handled>>

vars == <<doc, frames, errors, response, output, yielded, request, schema, panic, resolver,
          session, handled>>

(***************************************************************************)
(* Values: Value<S>, Option<Value<S>>, ExecutionResult<S>.                 *)
(***************************************************************************)
Null == [t |-> "Null"]

Scalar(x) == [t |-> "Scalar", v |-> x]

Object(o) == [t |-> "Object", o |-> o]

List(l) == [t |-> "List", l |-> l]

None == [some |-> FALSE]

Some(v) == [some |-> TRUE, v |-> v]

Ok(v) == [ok |-> TRUE, v |-> v]

Err(e) == [ok |-> FALSE, e |-> e]

KV(k, v) == [k |-> k, v |-> v]

(***************************************************************************)
(* Selections (ast::Selection).  `res` is what the instance's hook returns *)
(* for the selection: resolve_field_async for a field, resolve_into_type   *)
(* for an inline fragment with a type condition.  `sub` is the selection   *)
(* set of a fragment.  `excluded` is the verdict of is_excluded.           *)
(***************************************************************************)
Field(name, alias, excluded, res) ==
    [kind |-> "Field", name |-> name, alias |-> alias,
     excluded |-> excluded, res |-> res]

FragmentSpread(excluded, sub) ==
    [kind |-> "FragmentSpread", excluded |-> excluded, sub |-> sub]

InlineFragment(type_condition, excluded, sub, res) ==
    [kind |-> "InlineFragment", type_condition |-> type_condition,
     excluded |-> excluded, sub |-> sub, res |-> res]

\* The schema of the instance's type: `id: Int!`, `name: String`, `obj: Obj`.
is_non_null(field_name) == field_name \in {"id"}

\* The metadata of the type: whether concrete_type_by_name finds it, the
\* fields field_by_name finds, and whether the type overrides
\* resolve_field_async (the default implementation panics).
Schema(registered, fields, resolves) ==
    [registered |-> registered, fields |-> fields, resolves |-> resolves]

ConsistentSchema == Schema(TRUE, {"id", "name", "obj"}, TRUE)

\* A panic of the call at `frame`, at its selection `sel` (0: not at one).
PanicAt(msg, frame, sel) == Some([msg |-> msg, frame |-> frame, sel |-> sel])

\* instance.concrete_type_name(..)
concrete_type_name == "T"

response_name(f) == IF f.alias.some THEN f.alias.v ELSE f.name

(***************************************************************************)
(* Object: an ordered list of (key, value) with unique keys.               *)
(***************************************************************************)
HasKey(object, k) == \E i \in 1..Len(object) : object[i].k = k

KeyIndex(object, k) == CHOOSE i \in 1..Len(object) : object[i].k = k

Keys(object) == [i \in 1..Len(object) |-> object[i].k]

Get(object, k) == object[KeyIndex(object, k)].v

add_field(object, k, value) ==
    IF HasKey(object, k)
    THEN [object EXCEPT ![KeyIndex(object, k)].v = value]
    ELSE Append(object, KV(k, value))

RECURSIVE merge_key_into(_, _, _)
RECURSIVE MergeFields(_, _)

merge_key_into(result, name, value) ==
    IF HasKey(result, name)
    THEN LET i == KeyIndex(result, name)
             e == result[i].v
         IN  IF e.t = "Object" /\ value.t = "Object"
             THEN [result EXCEPT ![i].v = Object(MergeFields(e.o, value.o))]
             ELSE [result EXCEPT ![i].v = value]
    ELSE add_field(result, name, value)

\* As MergeFields, with each field inserted by add_field.
MergeFieldsByAddField(object, obj) ==
    IF obj = <<>>
    THEN object
    ELSE MergeFields(add_field(object, Head(obj).k, Head(obj).v), Tail(obj))

\* for (k, v) in obj { merge_key_into(&mut object, &k, v); }
MergeFields(object, obj) ==
    IF obj = <<>>
    THEN object
    ELSE MergeFields(merge_key_into(object, Head(obj).k, Head(obj).v), Tail(obj))

(***************************************************************************)
(* The error sink.                                                         *)
(***************************************************************************)
ExecutionError(e, pos, path) == [error |-> e, location |-> pos, path |-> path]

push_error_at(sink, e, pos, path) == Append(sink, ExecutionError(e, pos, path))

(***************************************************************************)
(* The field future: the reduction of the hook's result to Option<Value>.  *)
(***************************************************************************)
\* The hook's result reduced to Option<Value>.
FieldValue(res, non_null) ==
    IF res.ok
    THEN IF res.v = Null /\ non_null THEN None ELSE Some(res.v)
    ELSE IF non_null THEN None ELSE Some(Null)

\* As field_future, with the Err arm forgetting that the field is non-null.
field_future_ErrAlwaysNullValue(sink, res, non_null, pos, path) ==
    [value |-> IF res.ok THEN FieldValue(res, non_null) ELSE Some(Null),
     errors |-> IF res.ok THEN sink ELSE push_error_at(sink, res.e, pos, path)]

\* As field_future, with every error ending the selection set.
field_future_ErrAlwaysNone(sink, res, non_null, pos, path) ==
    [value |-> IF res.ok THEN FieldValue(res, non_null) ELSE None,
     errors |-> IF res.ok THEN sink ELSE push_error_at(sink, res.e, pos, path)]

\* As field_future, with a null of a non-null field recorded as an error.
field_future_RecordsNullViolation(sink, res, non_null, pos, path) ==
    [value |-> FieldValue(res, non_null),
     errors |-> IF res.ok /\ ~(res.v = Null /\ non_null)
                THEN sink
                ELSE push_error_at(sink, "null", pos, path)]

\* As field_future, with every explicit null ending the selection set.
field_future_NullAlwaysNone(sink, res, non_null, pos, path) ==
    [value |-> IF res.ok /\ res.v = Null THEN None ELSE FieldValue(res, non_null),
     errors |-> IF res.ok THEN sink ELSE push_error_at(sink, res.e, pos, path)]

\* As field_future, with the error stored in place of the sink's content.
field_future_OverwritesSink(sink, res, non_null, pos, path) ==
    [value |-> FieldValue(res, non_null),
     errors |-> IF res.ok THEN sink ELSE push_error_at(<<>>, res.e, pos, path)]

\* The future pushed for a field, once the hook has returned `res`: the
\* AsyncField's value and the sink after it.
field_future(sink, res, non_null, pos, path) ==
    [value |-> FieldValue(res, non_null),
     errors |-> IF res.ok THEN sink ELSE push_error_at(sink, res.e, pos, path)]

\* As stream_field_future, with an error of a nullable field ending the
\* selection set.
stream_field_future_ErrEndsSet(sink, res, non_null, pos, path) ==
    IF res.ok /\ res.v = Null /\ non_null
    THEN [value |-> None, errors |-> sink]
    ELSE IF res.ok
    THEN [value |-> Some(res.v), errors |-> sink]
    ELSE [value |-> None, errors |-> push_error_at(sink, res.e, pos, path)]

\* The future the stream resolver pushes for a field, once the hook has
\* returned `res`: Ok(Value::Null) if is_non_null => None, Ok(v) => Some(v),
\* Err(e) => push_error_at and None or Some(Value::Null).
stream_field_future(sink, res, non_null, pos, path) ==
    IF res.ok /\ res.v = Null /\ non_null
    THEN [value |-> None, errors |-> sink]
    ELSE IF res.ok
    THEN [value |-> Some(res.v), errors |-> sink]
    ELSE [value |-> IF non_null THEN None ELSE Some(Null),
          errors |-> push_error_at(sink, res.e, pos, path)]

(***************************************************************************)
(* The walk over the selection set.                                        *)
(***************************************************************************)
Task(idx, kind, name) ==
    [idx |-> idx, kind |-> kind, name |-> name, st |-> "pending", value |-> None]

\* As WalkField, without the lookup of the field in the type's metadata.
WalkField_NoFieldLookup(f, i, pos, acc) ==
    IF f.excluded THEN acc
    ELSE IF f.name = "__typename"
    THEN [acc EXCEPT !.object =
              add_field(@, response_name(f), Scalar(concrete_type_name))]
    ELSE [acc EXCEPT !.async_values = Append(@, Task(i, "Field", response_name(f)))]

\* As WalkField, with the field looked up before the directives are read.
WalkField_LookupBeforeExcluded(f, i, pos, acc) ==
    IF f.name # "__typename" /\ f.name \notin schema.fields
    THEN [acc EXCEPT !.panic = PanicAt("Field not found on type", SubSeq(pos, 1, Len(pos) - 1), i)]
    ELSE IF f.excluded THEN acc
    ELSE IF f.name = "__typename"
    THEN [acc EXCEPT !.object =
              add_field(@, response_name(f), Scalar(concrete_type_name))]
    ELSE [acc EXCEPT !.async_values = Append(@, Task(i, "Field", response_name(f)))]

\* As WalkField, with `__typename` looked up in the metadata like any field.
WalkField_TypenameLookedUp(f, i, pos, acc) ==
    IF f.excluded THEN acc
    ELSE IF f.name \notin schema.fields
    THEN [acc EXCEPT !.panic = PanicAt("Field not found on type", SubSeq(pos, 1, Len(pos) - 1), i)]
    ELSE IF f.name = "__typename"
    THEN [acc EXCEPT !.object =
              add_field(@, response_name(f), Scalar(concrete_type_name))]
    ELSE [acc EXCEPT !.async_values = Append(@, Task(i, "Field", response_name(f)))]

WalkField(f, i, pos, acc) ==
    IF f.excluded THEN acc
    ELSE IF f.name = "__typename"
    THEN [acc EXCEPT !.object =
              add_field(@, response_name(f), Scalar(concrete_type_name))]
    ELSE IF f.name \notin schema.fields
    THEN [acc EXCEPT !.panic = PanicAt("Field not found on type", SubSeq(pos, 1, Len(pos) - 1), i)]
    ELSE [acc EXCEPT !.async_values = Append(@, Task(i, "Field", response_name(f)))]

WalkFragmentSpread(spread, i, pos, acc) ==
    IF spread.excluded THEN acc
    ELSE [acc EXCEPT !.async_values = Append(@, Task(i, "Nested", ""))]

WalkInlineFragment(fragment, i, pos, acc) ==
    IF fragment.excluded THEN acc
    ELSE IF fragment.type_condition.some
    THEN LET sub_result == fragment.res
         IN  IF sub_result.ok /\ sub_result.v.t = "Object"
             THEN [acc EXCEPT !.object = MergeFields(@, sub_result.v.o)]
             ELSE IF ~sub_result.ok
             THEN [acc EXCEPT !.errors = push_error_at(@, sub_result.e, pos, <<>>)]
             ELSE acc
    ELSE [acc EXCEPT !.async_values = Append(@, Task(i, "Nested", ""))]

\* futures::stream::once(async { v }): the stream of the one event v.
once(v) == <<v>>

\* meta_type.name() of the concrete type the schema holds.
meta_type_name == Some(concrete_type_name)

\* As StreamWalkField, with the stream of `__typename` yielding the name
\* twice.
StreamWalkField_TypenameRepeats(f, i, pos, acc) ==
    IF f.excluded THEN acc
    ELSE IF f.name = "__typename"
    THEN [acc EXCEPT !.object =
              add_field(@, response_name(f),
                        Scalar(once(Scalar(concrete_type_name))
                               \o once(Scalar(concrete_type_name))))]
    ELSE IF f.name \notin schema.fields
    THEN [acc EXCEPT !.panic = PanicAt("Field not found on type", SubSeq(pos, 1, Len(pos) - 1), i)]
    ELSE [acc EXCEPT !.async_values = Append(@, Task(i, "Field", response_name(f)))]

\* The stream resolver's arm for a field: as WalkField, with `__typename`
\* a stream of one event.
StreamWalkField(f, i, pos, acc) ==
    IF f.excluded THEN acc
    ELSE IF f.name = "__typename"
    THEN [acc EXCEPT !.object =
              add_field(@, response_name(f), Scalar(once(Scalar(concrete_type_name))))]
    ELSE IF f.name \notin schema.fields
    THEN [acc EXCEPT !.panic = PanicAt("Field not found on type", SubSeq(pos, 1, Len(pos) - 1), i)]
    ELSE [acc EXCEPT !.async_values = Append(@, Task(i, "Field", response_name(f)))]

\* As StreamNarrow, with the error of a failed narrowing dropped.
StreamNarrow_ErrDropped(sub_result, pos, acc) ==
    IF sub_result.ok /\ sub_result.v.t = "Object"
    THEN [acc EXCEPT !.object = MergeFields(@, sub_result.v.o)]
    ELSE acc

\* What the stream resolver does with the result of stream_resolve_into_type.
StreamNarrow(sub_result, pos, acc) ==
    IF sub_result.ok /\ sub_result.v.t = "Object"
    THEN [acc EXCEPT !.object = MergeFields(@, sub_result.v.o)]
    ELSE IF ~sub_result.ok
    THEN [acc EXCEPT !.errors = push_error_at(@, sub_result.e, pos, <<>>)]
    ELSE acc

\* The stream resolver's arm for an inline fragment: the narrowing hook is
\* awaited during the walk, for the type condition or, without one, for
\* the name of the type; a type without a name ends the resolution.
StreamWalkInlineFragment(fragment, i, pos, acc) ==
    IF fragment.excluded THEN acc
    ELSE IF fragment.type_condition.some
    THEN StreamNarrow(fragment.res, pos, acc)
    ELSE IF meta_type_name.some
    THEN StreamNarrow(fragment.res, pos, acc)
    ELSE [acc EXCEPT !.ret = TRUE]

WalkSelection(sel, i, pos, acc) ==
    IF resolver = "stream"
    THEN CASE sel.kind = "Field" -> StreamWalkField(sel, i, pos, acc)
           [] sel.kind = "FragmentSpread" -> WalkFragmentSpread(sel, i, pos, acc)
           [] sel.kind = "InlineFragment" -> StreamWalkInlineFragment(sel, i, pos, acc)
    ELSE CASE sel.kind = "Field" -> WalkField(sel, i, pos, acc)
           [] sel.kind = "FragmentSpread" -> WalkFragmentSpread(sel, i, pos, acc)
           [] sel.kind = "InlineFragment" -> WalkInlineFragment(sel, i, pos, acc)

RECURSIVE WalkFrom(_, _, _, _)

WalkFrom(selection_set, p, i, acc) ==
    IF i > Len(selection_set) \/ acc.panic.some \/ acc.ret
    THEN acc
    ELSE WalkFrom(selection_set, p, i + 1,
                  WalkSelection(selection_set[i], i, Append(p, i), acc))

(***************************************************************************)
(* The drain loop.                                                         *)
(***************************************************************************)
\* As DrainItem, with a field's value pushed at the end of the object.
DrainItem_PushesField(object, item) ==
    IF item.kind = "Field"
    THEN IF item.value.some
         THEN [ret |-> FALSE, object |-> Append(object, KV(item.name, item.value.v))]
         ELSE [ret |-> TRUE, object |-> object]
    ELSE IF item.value.v = Null
         THEN [ret |-> TRUE, object |-> object]
         ELSE [ret |-> FALSE, object |-> MergeFields(object, item.value.v.o)]

\* As DrainItem, with a fragment that resolved to null contributing nothing.
DrainItem_NullFragmentSkipped(object, item) ==
    IF item.kind = "Field"
    THEN IF item.value.some
         THEN [ret |-> FALSE, object |-> add_field(object, item.name, item.value.v)]
         ELSE [ret |-> TRUE, object |-> object]
    ELSE IF item.value.v = Null
         THEN [ret |-> FALSE, object |-> object]
         ELSE [ret |-> FALSE, object |-> MergeFields(object, item.value.v.o)]

DrainItem(object, item) ==
    IF item.kind = "Field"
    THEN IF item.value.some
         THEN [ret |-> FALSE, object |-> add_field(object, item.name, item.value.v)]
         ELSE [ret |-> TRUE, object |-> object]
    ELSE IF item.value.v = Null
         THEN [ret |-> TRUE, object |-> object]
         ELSE [ret |-> FALSE, object |-> MergeFields(object, item.value.v.o)]

\* The match of the stream resolver's drain loop on one output.
StreamDrainItem(object, item) ==
    CASE item.kind = "Field" /\ item.value.some ->
             [ret |-> FALSE, object |-> add_field(object, item.name, item.value.v)]
      [] item.kind = "Field" /\ ~item.value.some ->
             [ret |-> TRUE, object |-> object]
      [] item.kind = "Nested" /\ item.value.v = Null ->
             [ret |-> TRUE, object |-> object]
      [] item.kind = "Nested" /\ item.value.v # Null ->
             [ret |-> FALSE, object |-> MergeFields(object, item.value.v.o)]

Parent(p) == SubSeq(p, 1, Len(p) - 1)

Last(p) == p[Len(p)]

TaskOf(fr, q, i) ==
    CHOOSE k \in 1..Len(fr[q].async_values) : fr[q].async_values[k].idx = i

RECURSIVE Settle(_, _)

\* As Return, with the future of the parent left pending.
Return_ParentNotWoken(fr, p, v) ==
    [fr EXCEPT ![p].pc = "done", ![p].result = v]

\* Frame p returns v; the future of its parent that ran it is ready.
Return(fr, p, v) ==
    LET fr1 == [fr EXCEPT ![p].pc = "done", ![p].result = v]
    IN  IF p = <<>>
        THEN fr1
        ELSE LET q == Parent(p)
                 k == TaskOf(fr1, q, Last(p))
             IN  Settle([fr1 EXCEPT ![q].async_values[k].st = "ready",
                                    ![q].async_values[k].value = Some(v)], q)

\* As Settle, with the queue a FuturesUnordered: an output is consumed as
\* soon as its future completes, whatever its place in the queue.
SettleUnordered(fr, p) ==
    LET f == fr[p]
        ready == {k \in 1..Len(f.async_values) : f.async_values[k].st = "ready"}
        left == {k \in 1..Len(f.async_values) : f.async_values[k].st # "taken"}
    IN  IF f.pc # "drain"
        THEN fr
        ELSE IF left = {}
        THEN Return(fr, p, Object(f.object))
        ELSE IF ready = {}
        THEN fr
        ELSE LET k == CHOOSE x \in ready : TRUE
                 r == DrainItem(f.object, f.async_values[k])
                 fr1 == [fr EXCEPT ![p].async_values[k].st = "taken"]
             IN  IF r.ret
                 THEN Return(fr1, p, Null)
                 ELSE Settle([fr1 EXCEPT ![p].object = r.object], p)

\* As Settle, with one output consumed each time the frame is woken.
Settle_OnePerWake(fr, p) ==
    LET f == fr[p]
    IN  IF f.pc # "drain"
        THEN fr
        ELSE IF f.next > Len(f.async_values)
        THEN Return(fr, p, Object(f.object))
        ELSE IF f.async_values[f.next].st # "ready"
        THEN fr
        ELSE LET r == DrainItem(f.object, f.async_values[f.next])
                 fr1 == [fr EXCEPT ![p].async_values[f.next].st = "taken"]
             IN  IF r.ret
                 THEN Return(fr1, p, Null)
                 ELSE [fr1 EXCEPT ![p].object = r.object, ![p].next = @ + 1]

\* while let Some(item) = async_values.next().await { .. }: frame p consumes
\* the outputs that are ready, in submission order, until the next one in
\* order is pending, the loop returns, or the queue is empty.
Settle(fr, p) ==
    LET f == fr[p]
    IN  IF f.pc # "drain"
        THEN fr
        ELSE IF f.next > Len(f.async_values)
        THEN Return(fr, p, Object(f.object))
        ELSE IF f.async_values[f.next].st # "ready"
        THEN fr
        ELSE LET r == IF resolver = "stream"
                      THEN StreamDrainItem(f.object, f.async_values[f.next])
                      ELSE DrainItem(f.object, f.async_values[f.next])
                 fr1 == [fr EXCEPT ![p].async_values[f.next].st = "taken"]
             IN  IF r.ret
                 THEN Return(fr1, p, Null)
                 ELSE Settle([fr1 EXCEPT ![p].object = r.object,
                                         ![p].next = @ + 1], p)

(***************************************************************************)
(* The state machine.                                                      *)
(***************************************************************************)
RECURSIVE SelSet(_)

SelSet(p) == IF p = <<>> THEN doc ELSE SelSet(Parent(p))[Last(p)].sub

Started(p) == p \in DOMAIN frames

\* Frame p is polled: it and every frame above it awaits its queue.
Live(p) == \A n \in 0..Len(p) : frames[SubSeq(p, 1, n)].pc = "drain"

NestedPending ==
    {Append(q, frames[q].async_values[k].idx) :
        <<q, k>> \in {x \in UNION {{<<q, k>> : k \in 1..Len(frames[q].async_values)} :
                                  q \in DOMAIN frames} :
                        /\ Live(x[1])
                        /\ frames[x[1]].async_values[x[2]].kind = "Nested"
                        /\ frames[x[1]].async_values[x[2]].st = "pending"}}

Startable == IF ~Started(<<>>) THEN {<<>>} ELSE {p \in NestedPending : ~Started(p)}

NewFrame(w) ==
    [pc |-> "drain", object |-> w.object, async_values |-> w.async_values,
     next |-> 1, result |-> Null]

\* A call of resolve_selection_set_into_async_recursive is polled for the
\* first time: it walks its selection set and awaits its queue.
Start(p) ==
    /\ ~panic.some
    /\ p \in Startable
    /\ IF ~schema.registered
       THEN /\ panic' = PanicAt("Type not found in schema", p, 0)
            /\ UNCHANGED <<frames, errors>>
       ELSE LET w == WalkFrom(SelSet(p), p, 1,
                              [object |-> <<>>, async_values |-> <<>>,
                               errors |-> errors, panic |-> None, ret |-> FALSE])
                hooks == {k \in 1..Len(w.async_values) :
                             w.async_values[k].kind = "Field"}
            IN  IF w.panic.some
                THEN /\ panic' = w.panic
                     /\ errors' = w.errors
                     /\ UNCHANGED frames
                ELSE IF ~schema.resolves /\ hooks # {}
                THEN /\ panic' = PanicAt("resolve_field must be implemented by object types", p, 0)
                     /\ errors' = w.errors
                     /\ UNCHANGED frames
                ELSE IF w.ret
                THEN /\ frames' = Return(frames @@ (p :> NewFrame(w)), p, Null)
                     /\ errors' = w.errors
                     /\ UNCHANGED panic
                ELSE /\ frames' = Settle(frames @@ (p :> NewFrame(w)), p)
                     /\ errors' = w.errors
                     /\ UNCHANGED panic
    /\ UNCHANGED <<doc, httpVars, schema, resolver, wsVars>>

\* As Complete, with the future writing its value into the object of the
\* selection set when it completes.
Complete_WritesObject(p, k) ==
    /\ ~panic.some
    /\ Started(p)
    /\ Live(p)
    /\ k \in 1..Len(frames[p].async_values)
    /\ frames[p].async_values[k].kind = "Field"
    /\ frames[p].async_values[k].st = "pending"
    /\ LET t == frames[p].async_values[k]
           f == SelSet(p)[t.idx]
           res == f.res
           out == field_future(errors, res, is_non_null(f.name),
                               Append(p, t.idx), <<t.name>>)
       IN  /\ errors' = out.errors
           /\ frames' = Settle([frames EXCEPT
                                   ![p].async_values[k].st = "ready",
                                   ![p].async_values[k].value = out.value,
                                   ![p].object = IF out.value.some
                                                 THEN add_field(@, t.name, out.value.v)
                                                 ELSE @], p)
    /\ UNCHANGED <<doc, httpVars, schema, panic, resolver, wsVars>>

\* The field future k of frame p completes.
Complete(p, k) ==
    /\ ~panic.some
    /\ Started(p)
    /\ Live(p)
    /\ k \in 1..Len(frames[p].async_values)
    /\ frames[p].async_values[k].kind = "Field"
    /\ frames[p].async_values[k].st = "pending"
    /\ LET t == frames[p].async_values[k]
           f == SelSet(p)[t.idx]
           res == f.res
           out == IF resolver = "stream"
                  THEN stream_field_future(errors, res, is_non_null(f.name),
                                           Append(p, t.idx), <<t.name>>)
                  ELSE field_future(errors, res, is_non_null(f.name),
                                    Append(p, t.idx), <<t.name>>)
       IN  /\ errors' = out.errors
           /\ frames' = Settle([frames EXCEPT
                                   ![p].async_values[k].st = "ready",
                                   ![p].async_values[k].value = out.value], p)
    /\ UNCHANGED <<doc, httpVars, schema, panic, resolver, wsVars>>

(***************************************************************************)
(* Documents.                                                              *)
(***************************************************************************)
FieldSelections ==
    {Field(n, None, FALSE, r) :
        n \in {"id"}, r \in {Ok(Scalar("1")), Ok(Null), Err("e")}}
    \cup
    {Field(n, None, FALSE, r) :
        n \in {"name"}, r \in {Ok(Scalar("2")), Ok(Null), Err("e")}}

Catalog ==
    FieldSelections
    \cup {Field("__typename", None, FALSE, Ok(Null)),
          Field("name", None, TRUE, Err("e")),
          FragmentSpread(FALSE, <<Field("name", Some("n"), FALSE, Err("e")),
                                  Field("id", Some("i"), FALSE, Ok(Scalar("1")))>>),
          InlineFragment(Some("T"), FALSE, <<>>, Err("e"))}

\* Aliases, `__typename`, fragments and objects under one response name.
ObjX == Object(<<KV("x", Scalar("1"))>>)

ObjY == Object(<<KV("y", Scalar("2"))>>)

MergeCatalog ==
    {Field("id", None, FALSE, Ok(Scalar("1"))),
     Field("name", None, FALSE, Ok(Scalar("2"))),
     Field("id", Some("name"), FALSE, Ok(Scalar("1"))),
     Field("id", Some("c"), FALSE, Ok(Null)),
     Field("obj", Some("o"), FALSE, Ok(ObjX)),
     Field("obj", Some("o"), FALSE, Ok(ObjY)),
     Field("__typename", None, FALSE, Ok(Null)),
     Field("__typename", Some("name"), FALSE, Ok(Null)),
     FragmentSpread(FALSE,
         <<Field("obj", Some("o"), FALSE, Ok(ObjY)),
           InlineFragment(None, FALSE,
               <<Field("name", Some("b"), FALSE, Ok(Scalar("2")))>>, Ok(Null))>>),
     InlineFragment(None, FALSE,
         <<Field("id", Some("c"), FALSE, Ok(Scalar("1")))>>, Ok(Null)),
     InlineFragment(Some("T"), FALSE, <<>>,
         Ok(Object(<<KV("o", ObjX), KV("d", Scalar("3"))>>)))}

\* Documents for schemas that may break the contract: `gone` is in no
\* type's metadata.
SchemaCatalog ==
    {Field("id", None, FALSE, Ok(Scalar("1"))),
     Field("id", None, FALSE, Ok(Null)),
     Field("name", None, FALSE, Err("e")),
     Field("gone", None, FALSE, Ok(Scalar("3"))),
     Field("gone", None, TRUE, Ok(Scalar("3"))),
     Field("__typename", None, FALSE, Ok(Null)),
     FragmentSpread(FALSE, <<Field("name", Some("n"), FALSE, Ok(Scalar("2"))),
                             Field("gone", None, FALSE, Ok(Scalar("3")))>>),
     FragmentSpread(FALSE, <<Field("__typename", Some("t"), FALSE, Ok(Null))>>),
     InlineFragment(Some("T"), FALSE, <<>>, Err("e"))}

Schemas ==
    {ConsistentSchema,
     Schema(FALSE, {"id", "name", "obj"}, TRUE),
     Schema(TRUE, {"id", "name", "obj"}, FALSE)}

\* Fragments that contribute to the same response names.
ObjA == Object(<<KV("a", Scalar("1"))>>)

ObjB == Object(<<KV("b", Scalar("2"))>>)

FragCatalog ==
    {InlineFragment(Some("T"), FALSE, <<>>,
         Ok(Object(<<KV("x", ObjA), KV("d", Scalar("3"))>>))),
     InlineFragment(Some("T"), FALSE, <<>>,
         Ok(Object(<<KV("x", ObjB), KV("d", Scalar("4"))>>))),
     InlineFragment(Some("T"), FALSE, <<>>, Ok(Null)),
     InlineFragment(Some("T"), FALSE, <<>>, Err("e")),
     FragmentSpread(FALSE,
         <<Field("obj", Some("x"), FALSE, Ok(ObjA)),
           Field("name", Some("d"), FALSE, Ok(Scalar("5")))>>),
     FragmentSpread(TRUE, <<Field("id", None, FALSE, Err("e"))>>),
     InlineFragment(None, FALSE,
         <<Field("obj", Some("x"), FALSE, Ok(ObjB))>>, Ok(Null)),
     InlineFragment(None, FALSE,
         <<Field("id", None, FALSE, Ok(Null))>>, Ok(Null)),
     Field("obj", Some("x"), FALSE, Ok(ObjB)),
     Field("name", None, FALSE, Ok(Scalar("2")))}

SelectionSets(C) == UNION {[1..n -> C] : n \in 1..MaxSel}

\* No response has been built yet.
NotCalled == [t |-> "NotCalled"]

NoRequest == [method |-> "None"]

\* No session has been constructed.
NoSession ==
    /\ session = [phase |-> "None", handler |-> <<>>]
    /\ handled = <<>>

NoResponse ==
    /\ response = [kind |-> "None"]
    /\ output = NotCalled
    /\ yielded = <<>>
    /\ request = NoRequest

\* The schema holds everything the documents select.
SchemaConsistent ==
    /\ schema = ConsistentSchema
    /\ panic = None

Init ==
    /\ resolver = "query"
    /\ NoSession
    /\ doc \in SelectionSets(Catalog)
    /\ frames = <<>>
    /\ errors = <<>>
    /\ NoResponse
    /\ SchemaConsistent

InitMerge ==
    /\ resolver = "query"
    /\ NoSession
    /\ doc \in SelectionSets(MergeCatalog)
    /\ frames = <<>>
    /\ errors = <<>>
    /\ NoResponse
    /\ SchemaConsistent

InitSchema ==
    /\ resolver = "query"
    /\ NoSession
    /\ doc \in SelectionSets(SchemaCatalog)
    /\ frames = <<>>
    /\ errors = <<>>
    /\ NoResponse
    /\ schema \in Schemas
    /\ panic = None

InitFrag ==
    /\ resolver = "query"
    /\ NoSession
    /\ doc \in SelectionSets(FragCatalog)
    /\ frames = <<>>
    /\ errors = <<>>
    /\ NoResponse
    /\ SchemaConsistent

Next ==
    \/ \E p \in Startable : Start(p)
    \/ \E p \in DOMAIN frames : \E k \in 1..Len(frames[p].async_values) : Complete(p, k)

Spec == Init /\ [][Next]_vars

SpecMerge == InitMerge /\ [][Next]_vars

SpecFrag == InitFrag /\ [][Next]_vars

SpecSchema == InitSchema /\ [][Next]_vars

\* A stream of two events.
Events(a, b) == Scalar(<<Scalar(a), Scalar(b)>>)

\* Selections of a subscription: the hooks return objects whose leaves are
\* streams.
StreamCatalog ==
    {InlineFragment(Some("T"), FALSE, <<>>, Err("e")),
     InlineFragment(Some("T"), FALSE, <<>>,
         Ok(Object(<<KV("x", Object(<<KV("a", Events("1", "2"))>>)),
                     KV("d", Events("3", "4"))>>))),
     InlineFragment(None, FALSE, <<Field("name", Some("x"), FALSE, Ok(Events("5", "6")))>>,
         Ok(Object(<<KV("x", Events("5", "6"))>>))),
     InlineFragment(None, FALSE, <<Field("name", Some("x"), FALSE, Err("e"))>>, Err("e")),
     FragmentSpread(FALSE, <<Field("name", Some("d"), FALSE, Ok(Events("7", "8")))>>),
     Field("name", Some("d"), FALSE, Ok(Events("1", "2"))),
     Field("__typename", None, FALSE, Ok(Null)),
     Field("id", None, FALSE, Ok(Null)),
     Field("name", Some("n"), FALSE, Err("e")),
     Field("id", None, FALSE, Err("f"))}

InitStream ==
    /\ resolver = "stream"
    /\ NoSession
    /\ doc \in SelectionSets(StreamCatalog)
    /\ frames = <<>>
    /\ errors = <<>>
    /\ NoResponse
    /\ SchemaConsistent

SpecStream == InitStream /\ [][Next]_vars

\* Inline fragments whose narrowing fails, succeeds or is excluded, among
\* fields and fragments, for either resolver.
NarrowCatalog ==
    {InlineFragment(Some("T"), FALSE, <<>>, Err("e")),
     InlineFragment(Some("T"), TRUE, <<>>, Err("e")),
     InlineFragment(Some("T"), FALSE, <<>>,
         Ok(Object(<<KV("x", ObjA), KV("d", Scalar("3"))>>))),
     InlineFragment(None, FALSE,
         <<Field("obj", Some("x"), FALSE, Ok(ObjB))>>, Ok(Object(<<KV("x", ObjB)>>))),
     FragmentSpread(FALSE, <<Field("name", Some("d"), FALSE, Err("f"))>>),
     Field("name", Some("d"), FALSE, Ok(Scalar("2"))),
     Field("id", None, FALSE, Ok(Null))}

InitNarrow ==
    /\ resolver \in {"query", "stream"}
    /\ NoSession
    /\ doc \in SelectionSets(NarrowCatalog)
    /\ frames = <<>>
    /\ errors = <<>>
    /\ NoResponse
    /\ SchemaConsistent

SpecNarrow == InitNarrow /\ [][Next]_vars

\* Selections excluded by a directive, of every kind, among selections
\* that are not; `gone` is in no type's metadata.
ExcludedCatalog ==
    {Field("gone", None, TRUE, Ok(Scalar("3"))),
     Field("id", None, TRUE, Ok(Null)),
     Field("__typename", Some("t"), TRUE, Ok(Null)),
     FragmentSpread(TRUE, <<Field("id", None, FALSE, Err("e"))>>),
     InlineFragment(Some("T"), TRUE, <<>>, Err("e")),
     InlineFragment(None, TRUE, <<Field("gone", None, FALSE, Ok(Scalar("3")))>>, Ok(Null)),
     Field("name", None, FALSE, Ok(Scalar("2"))),
     Field("name", Some("n"), FALSE, Err("e")),
     Field("gone", None, FALSE, Ok(Scalar("3"))),
     FragmentSpread(FALSE, <<Field("id", None, TRUE, Ok(Null)),
                             Field("name", Some("m"), FALSE, Ok(Scalar("2")))>>)}

InitExcluded ==
    /\ resolver = "query"
    /\ NoSession
    /\ doc \in SelectionSets(ExcludedCatalog)
    /\ frames = <<>>
    /\ errors = <<>>
    /\ NoResponse
    /\ SchemaConsistent

SpecExcluded == InitExcluded /\ [][Next]_vars

\* Some step can be taken: the guards of Start and Complete, which is
\* ENABLED <<Next>>_vars (both actions change `frames`).
CanStep ==
    /\ ~panic.some
    /\ \/ Startable # {}
       \/ \E p \in DOMAIN frames :
              /\ Live(p)
              /\ \E k \in 1..Len(frames[p].async_values) :
                     /\ frames[p].async_values[k].kind = "Field"
                     /\ frames[p].async_values[k].st = "pending"

\* The executor keeps polling the root future, and every hook that was
\* invoked completes: weak fairness of Next, written out with CanStep for
\* ENABLED <<Next>>_vars.
Fairness == []<>(~CanStep) \/ []<><<Next>>_vars

SpecLive == Init /\ [][Next]_vars /\ Fairness

(***************************************************************************)
(* The response envelope (juniper/src/http/mod.rs).                        *)
(***************************************************************************)
RootDone == Started(<<>>) /\ frames[<<>>].pc = "done"

\* execute_async: the value the root selection set resolved to, with the
\* errors of the sink.
Response == Ok([data |-> frames[<<>>].result, errors |-> errors])

\* As serialize, with the `errors` entry written for an empty list too.
serialize_AlwaysErrors(r) ==
    IF r.ok
    THEN <<KV("data", r.v.data), KV("errors", r.v.errors)>>
    ELSE <<KV("errors", r.e)>>

\* impl Serialize for GraphQLResponse: the entries of the serialized map.
serialize(r) ==
    IF r.ok
    THEN <<KV("data", r.v.data)>>
         \o (IF r.v.errors # <<>> THEN <<KV("errors", r.v.errors)>> ELSE <<>>)
    ELSE <<KV("errors", r.e)>>

\* GraphQLResponse::from_result
from_result(r) == r

\* SourcePosition::new_origin(): the position no selection has.
new_origin == <<0>>

\* ExecutionError::at_origin
at_origin(e) == ExecutionError(e, new_origin, <<>>)

\* As error, with the error made the failure of the whole request.
error_AsFailure(e) == Err(e)

\* GraphQLResponse::error
error(e) == Ok([data |-> Null, errors |-> <<at_origin(e)>>])

\* As is_ok, true only for a response without execution errors.
is_ok_NoExecutionErrors(r) == r.ok /\ r.v.errors = <<>>

\* GraphQLResponse::is_ok
is_ok(r) == r.ok

\* What a conversion returned: None, Some(sequence) with the items the
\* underlying sequence still holds, or a panic (unimplemented!()).
NoneOut == [t |-> "None"]

SomeOut(items) == [t |-> "Some", items |-> items]

Panic == [t |-> "Panic"]

\* IteratorGraphQLResponse::into_iter
into_iter(r) ==
    IF ~r.ok THEN NoneOut
    ELSE CASE r.v.t = "Null" -> NoneOut
           [] r.v.t = "Scalar" -> SomeOut(r.v.v)
           [] r.v.t = "List" -> Panic
           [] r.v.t = "Object" -> Panic

\* As into_stream, with the null items of the stream filtered out.
into_stream_SkipsNull(r) ==
    IF ~r.ok THEN NoneOut
    ELSE CASE r.v.t = "Null" -> NoneOut
           [] r.v.t = "Scalar" -> SomeOut(SelectSeq(r.v.v, LAMBDA value : value # Null))
           [] r.v.t = "List" -> Panic
           [] r.v.t = "Object" -> Panic

\* StreamGraphQLResponse::into_stream
into_stream(r) ==
    IF ~r.ok THEN NoneOut
    ELSE CASE r.v.t = "Null" -> NoneOut
           [] r.v.t = "Scalar" -> SomeOut(r.v.v)
           [] r.v.t = "List" -> Panic
           [] r.v.t = "Object" -> Panic

\* The closure mapped over the underlying sequence (lines 285-287, 336-338).
Envelope(value) == from_result(Ok([data |-> value, errors |-> <<>>]))

(***************************************************************************)
(* Responses under test: the inputs of the http methods.                   *)
(***************************************************************************)
MaxEvents == 3

MaxErrors == 2

SeqsUpTo(S, n) == UNION {[1..m -> S] : m \in 0..n}

EventValues == {Scalar("1"), Scalar("2"), Null}

\* The items a Value::Scalar of a subscription holds: a stream or iterator.
Streams == SeqsUpTo(EventValues, MaxEvents)

DataValues == {Null, Scalar("1"), Object(<<>>), Object(<<KV("a", Scalar("1"))>>)}

ExecutionErrors == {ExecutionError("e", <<1>>, <<"a">>), ExecutionError("f", <<2>>, <<"b">>)}

GraphQLErrors == {"ParseError", "ValidationError"}

\* Result<(Value<S>, Vec<ExecutionError<S>>), GraphQLError>
Results ==
    {Ok([data |-> d, errors |-> e]) :
        d \in DataValues, e \in SeqsUpTo(ExecutionErrors, MaxErrors)}
    \cup {Err(e) : e \in GraphQLErrors}

\* Result<Value<ValuesStream>, GraphQLError> (and ValuesIterator)
SubscriptionResults ==
    {Ok(Null), Ok(List(<<>>)), Ok(List(<<Scalar(<<Null>>)>>)), Ok(Object(<<>>))}
    \cup {Ok(Scalar(st)) : st \in Streams}
    \cup {Ok(Object(<<KV("f", Scalar(st))>>)) : st \in Streams}
    \cup {Err(e) : e \in GraphQLErrors}

\* The queries of the HTTP test suite: `blah` does not parse, `{hero{blah}}`
\* selects a field the schema does not have, `{hero{name}}` executes.
Queries == {"blah", "{hero{blah}}", "{hero{name}}"}

Parses(query) == query # "blah"

Validates(query) == query # "{hero{blah}}"

GraphQLRequest(method, query) == [method |-> method, query |-> query]

Requests == {GraphQLRequest(m, q) : m \in {"GET", "POST"}, q \in Queries}

\* crate::execute: the results the execution of a query can have.  A query
\* that does not parse or does not validate is not executed.
execute(query) ==
    IF ~Parses(query) THEN {Err("ParseError")}
    ELSE IF ~Validates(query) THEN {Err("ValidationError")}
    ELSE {r \in Results : r.ok}

STATUS_OK == 200

STATUS_BAD_REQUEST == 400

\* The status an integration answers with: "Use the `is_ok` method to
\* determine whether to send a 200 or 400 HTTP status code."
status_code(r) == IF is_ok(r) THEN STATUS_OK ELSE STATUS_BAD_REQUEST

TestResponse(code, body) == [t |-> "TestResponse", status_code |-> code, body |-> body]

InitHttp ==
    /\ resolver = "query"
    /\ NoSession
    /\ doc = <<>>
    /\ frames = <<>>
    /\ errors = <<>>
    /\ SchemaConsistent
    /\ \/ /\ response \in {[kind |-> "GraphQLResponse", r |-> r] : r \in Results}
          /\ request = NoRequest
       \/ /\ response \in {[kind |-> "IteratorGraphQLResponse", r |-> r] :
                               r \in SubscriptionResults}
          /\ request = NoRequest
       \/ /\ response \in {[kind |-> "StreamGraphQLResponse", r |-> r] :
                               r \in SubscriptionResults}
          /\ request = NoRequest
       \/ /\ response = [kind |-> "None"]
          /\ request \in Requests
       \/ /\ response = [kind |-> "None"]
          /\ request = NoRequest
    /\ output = NotCalled
    /\ yielded = <<>>

\* HTTPIntegration::get / post: the integration executes the request and
\* answers with the serialized response.
Handle ==
    /\ request # NoRequest
    /\ output = NotCalled
    /\ \E r \in execute(request.query) :
           /\ response' = [kind |-> "GraphQLResponse", r |-> r]
           /\ output' = TestResponse(status_code(r), serialize(r))
    /\ UNCHANGED <<doc, frames, errors, yielded, request, schema, panic, resolver, wsVars>>

\* The FieldErrors an integration reports outside of the execution.
FieldErrors == {"e", "f"}

\* GraphQLResponse::error(e) is called.
Error ==
    /\ response = [kind |-> "None"]
    /\ request = NoRequest
    /\ \E e \in FieldErrors :
           response' = [kind |-> "GraphQLResponse", r |-> error(e), error |-> e]
    /\ UNCHANGED <<doc, frames, errors, output, yielded, request, schema, panic, resolver, wsVars>>

Serialize ==
    /\ response.kind = "GraphQLResponse"
    /\ output = NotCalled
    /\ output' = [t |-> "Serialized", map |-> serialize(response.r)]
    /\ UNCHANGED <<doc, frames, errors, response, yielded, request, schema, panic, resolver, wsVars>>

IsOk ==
    /\ response.kind = "GraphQLResponse"
    /\ output = NotCalled
    /\ output' = [t |-> "IsOk", b |-> is_ok(response.r)]
    /\ UNCHANGED <<doc, frames, errors, response, yielded, request, schema, panic, resolver, wsVars>>

IntoIter ==
    /\ response.kind = "IteratorGraphQLResponse"
    /\ output = NotCalled
    /\ output' = into_iter(response.r)
    /\ UNCHANGED <<doc, frames, errors, response, yielded, request, schema, panic, resolver, wsVars>>

IntoStream ==
    /\ response.kind = "StreamGraphQLResponse"
    /\ output = NotCalled
    /\ output' = into_stream(response.r)
    /\ UNCHANGED <<doc, frames, errors, response, yielded, request, schema, panic, resolver, wsVars>>

\* The consumer takes the next envelope of the returned sequence.
PollNext ==
    /\ output.t = "Some"
    /\ output.items # <<>>
    /\ yielded' = Append(yielded, Envelope(Head(output.items)))
    /\ output' = SomeOut(Tail(output.items))
    /\ UNCHANGED <<doc, frames, errors, response, request, schema, panic, resolver, wsVars>>

NextHttp == Error \/ Handle \/ Serialize \/ IsOk \/ IntoIter \/ IntoStream \/ PollNext

SpecHttp == InitHttp /\ [][NextHttp]_vars

(***************************************************************************)
(* GraphQLRequest::variables.                                              *)
(***************************************************************************)
MaxVars == 2

\* Variables<S>::default(): the mapping without names.
NoVariables == [name \in {} |-> Null]

\* The mapping collected from (name, value) pairs: a later pair replaces an
\* earlier one of the same name.
Collect(pairs) ==
    [name \in {pairs[n].k : n \in 1..Len(pairs)} |->
        pairs[CHOOSE n \in 1..Len(pairs) :
                  /\ pairs[n].k = name
                  /\ \A j \in (n + 1)..Len(pairs) : pairs[j].k # name].v]

\* InputValue::to_object_value
to_object_value(iv) == IF iv.t = "Object" THEN Some(Collect(iv.o)) ELSE None

\* As variables, with a value that is not an object kept under a name.
variables_KeepsNonObject(self) ==
    IF ~self.variables.some
    THEN NoVariables
    ELSE LET o == to_object_value(self.variables.v)
         IN  IF o.some
             THEN [k \in DOMAIN o.v |-> o.v[k]]
             ELSE [k \in {"variables"} |-> self.variables.v]

\* GraphQLRequest::variables
variables(self) ==
    IF ~self.variables.some
    THEN NoVariables
    ELSE LET o == to_object_value(self.variables.v)
         IN  IF o.some
             THEN [k \in DOMAIN o.v |-> o.v[k]]
             ELSE NoVariables

VariableNames == {"a", "b"}

VariableValues == {Null, Scalar("1"), Scalar("2"), List(<<>>)}

\* The `variables` of a request: absent, not an object, or an object of up
\* to MaxVars pairs.
InputValues ==
    VariableValues
    \cup {Object(o) : o \in SeqsUpTo({KV(k, v) : k \in VariableNames, v \in VariableValues},
                                    MaxVars)}

VariableRequests ==
    {[method |-> "POST", query |-> "{hero{name}}", variables |-> v] :
        v \in {None} \cup {Some(iv) : iv \in InputValues}}

InitVariables ==
    /\ resolver = "query"
    /\ doc = <<>>
    /\ frames = <<>>
    /\ errors = <<>>
    /\ SchemaConsistent
    /\ NoSession
    /\ response = [kind |-> "None"]
    /\ request \in VariableRequests
    /\ output = NotCalled
    /\ yielded = <<>>

\* GraphQLRequest::variables is called on the request.
Variables ==
    /\ "variables" \in DOMAIN request
    /\ output = NotCalled
    /\ output' = [t |-> "Variables", map |-> variables(request)]
    /\ UNCHANGED <<doc, frames, errors, response, yielded, request, schema, panic, resolver, wsVars>>

NextVariables == Variables

SpecVariables == InitVariables /\ [][NextVariables]_vars

(***************************************************************************)
(* graphql_over_ws: the session of the GraphQL-over-WebSocket protocol.    *)
(***************************************************************************)
MaxRequests == 4

\* ClientConnectionType
ClientConnectionTypes == {"ConnectionInit", "Start", "Stop", "ConnectionTerminate"}

\* ClientPayload, reduced to the field handle_request reads.
ClientPayload(type_name) == [type_name |-> type_name]

\* GraphQLOverWs::new
new == [phase |-> "SessionInit", handler |-> <<>>]

\* As handle_request, with connection_terminate ending the connection.
handle_request_TerminateResets(self, payload, connects) ==
    CASE payload.type_name = "ConnectionInit" ->
             [phase |-> "Connected", handler |-> Append(self.handler, connects)]
      [] payload.type_name = "Start" -> self
      [] payload.type_name = "Stop" -> self
      [] payload.type_name = "ConnectionTerminate" -> [self EXCEPT !.phase = "SessionInit"]

\* As handle_request, with a refused connection left in SessionInit.
handle_request_RefusalKeepsInit(self, payload, connects) ==
    CASE payload.type_name = "ConnectionInit" ->
             [phase |-> IF connects THEN "Connected" ELSE self.phase,
              handler |-> Append(self.handler, connects)]
      [] payload.type_name = "Start" -> self
      [] payload.type_name = "Stop" -> self
      [] payload.type_name = "ConnectionTerminate" -> self

\* As handle_request, with a start before connection_init connecting.
handle_request_StartConnects(self, payload, connects) ==
    CASE payload.type_name = "ConnectionInit" ->
             [phase |-> "Connected", handler |-> Append(self.handler, connects)]
      [] payload.type_name = "Start" ->
             IF self.phase = "SessionInit"
             THEN [phase |-> "Connected", handler |-> Append(self.handler, connects)]
             ELSE self
      [] payload.type_name = "Stop" -> self
      [] payload.type_name = "ConnectionTerminate" -> self

\* GraphQLOverWs::handle_request; `connects` is what on_connect returns if
\* it is called, and `handler` the log of the calls it received.
handle_request(self, payload, connects) ==
    CASE payload.type_name = "ConnectionInit" ->
             [phase |-> "Connected", handler |-> Append(self.handler, connects)]
      [] payload.type_name = "Start" -> self
      [] payload.type_name = "Stop" -> self
      [] payload.type_name = "ConnectionTerminate" -> self

InitWs ==
    /\ resolver = "query"
    /\ doc = <<>>
    /\ frames = <<>>
    /\ errors = <<>>
    /\ NoResponse
    /\ SchemaConsistent
    /\ session = new
    /\ handled = <<>>

\* The session handles one more request of the client.
HandleRequest ==
    /\ session.phase # "None"
    /\ Len(handled) < MaxRequests
    /\ \E type_name \in ClientConnectionTypes, connects \in BOOLEAN :
           /\ session' = handle_request(session, ClientPayload(type_name), connects)
           /\ handled' = Append(handled, type_name)
    /\ UNCHANGED <<doc, frames, errors, httpVars, schema, panic, resolver>>

NextWs == HandleRequest

SpecWs == InitWs /\ [][NextWs]_vars

(***************************************************************************)
(* What the document says, read off the selection sets.                    *)
(***************************************************************************)
IsPrefix(s, t) == Len(s) =< Len(t) /\ SubSeq(t, 1, Len(s)) = s

Distinct(s) == \A i, j \in 1..Len(s) : s[i] = s[j] => i = j

IsTaskSel(sel) ==
    /\ ~sel.excluded
    /\ \/ sel.kind = "Field" /\ sel.name # "__typename"
       \/ sel.kind = "FragmentSpread"
       \/ sel.kind = "InlineFragment" /\ ~sel.type_condition.some

IsNestedSel(sel) == IsTaskSel(sel) /\ sel.kind # "Field"

IsFieldSel(sel) == IsTaskSel(sel) /\ sel.kind = "Field"

RECURSIVE WrittenNames(_)

\* The response names a selection set writes, in the order it writes them.
WrittenNames(selection_set) ==
    IF selection_set = <<>>
    THEN <<>>
    ELSE LET sel == Head(selection_set)
             here == IF sel.excluded THEN <<>>
                     ELSE IF sel.kind = "Field" THEN <<response_name(sel)>>
                     ELSE IF IsNestedSel(sel) THEN WrittenNames(sel.sub)
                     ELSE IF sel.res.ok /\ sel.res.v.t = "Object"
                          THEN Keys(sel.res.v.o)
                          ELSE <<>>
         IN  here \o WrittenNames(Tail(selection_set))

RECURSIVE TasksOnly(_)

\* Every selection that is not excluded is scheduled as a task, at every depth.
TasksOnly(selection_set) ==
    \A i \in 1..Len(selection_set) :
        LET sel == selection_set[i]
        IN  sel.excluded \/ (IsTaskSel(sel) /\ (IsNestedSel(sel) => TasksOnly(sel.sub)))

\* The field selection ends without a value: null or an error where the
\* schema says non-null.
NullOutcome(sel) == is_non_null(sel.name) /\ (~sel.res.ok \/ sel.res.v = Null)

RECURSIVE Bubbles(_)

\* Some task of the selection set ends without a value.
Bubbles(selection_set) ==
    \E i \in 1..Len(selection_set) :
        LET sel == selection_set[i]
        IN  \/ IsFieldSel(sel) /\ NullOutcome(sel)
            \/ IsNestedSel(sel) /\ Bubbles(sel.sub)

Done(p) == Started(p) /\ frames[p].pc = "done"

TaskIndexes(p) == 1..Len(frames[p].async_values)

FieldTasks(p) == {k \in TaskIndexes(p) : frames[p].async_values[k].kind = "Field"}

SelOfTask(p, k) == SelSet(p)[frames[p].async_values[k].idx]

PosOfTask(p, k) == Append(p, frames[p].async_values[k].idx)

ErrorsAt(pos) == Cardinality({n \in 1..Len(errors) : errors[n].location = pos})

TaskDone(p, k) == frames[p].async_values[k].st # "pending"

TaskValue(p, k) == frames[p].async_values[k].value

\* The fields of frame p that resolved to a value hold it in the object
\* the frame returned.
SiblingsIntact(p) ==
    \A j \in FieldTasks(p) :
        LET sel == SelOfTask(p, j)
        IN  sel.res.ok /\ sel.res.v # Null =>
                /\ HasKey(frames[p].result.o, response_name(sel))
                /\ Get(frames[p].result.o, response_name(sel)) = sel.res.v

\* The frame returned an object in which `sel` has a null entry and the
\* other fields their values.
NullEntryAmongSiblings(p, sel) ==
    /\ frames[p].result.t = "Object"
    /\ HasKey(frames[p].result.o, response_name(sel))
    /\ Distinct(WrittenNames(SelSet(p))) =>
           /\ Get(frames[p].result.o, response_name(sel)) = Null
           /\ SiblingsIntact(p)

(***************************************************************************)
(* C1.  When a scheduled field task of a selection set belongs to a field  *)
(* declared non-null and ends without a value (the hook returned Ok(Null)  *)
(* or an error), the selection set returns Null, not an object.            *)
(***************************************************************************)
C1_NonNullNullGivesNull ==
    \A p \in DOMAIN frames :
        Done(p) =>
            \A k \in FieldTasks(p) :
                NullOutcome(SelOfTask(p, k)) => frames[p].result = Null

\* A frame returned Null for a non-null field after it had already put a
\* sibling's value in its object.
C1_Witness ==
    \E p \in DOMAIN frames :
        /\ Done(p)
        /\ frames[p].result = Null
        /\ frames[p].object # <<>>
        /\ \E k \in FieldTasks(p) :
               /\ NullOutcome(SelOfTask(p, k))
               /\ frames[p].async_values[k].st = "taken"
               /\ TaskValue(p, k) = None

(***************************************************************************)
(* C2.  When every selection of a selection set that is not excluded is a  *)
(* scheduled task, the response names are pairwise distinct and nothing    *)
(* short-circuits, the keys of the returned object are in selection-set    *)
(* order, whatever the order in which the tasks complete.                  *)
(***************************************************************************)
C2_TasksDrainInSubmissionOrder ==
    \A p \in DOMAIN frames :
        (/\ Done(p)
         /\ frames[p].result # Null
         /\ TasksOnly(SelSet(p))
         /\ Distinct(WrittenNames(SelSet(p))))
        => Keys(frames[p].result.o) = WrittenNames(SelSet(p))

\* A later task of such a selection set has completed while the first one
\* is still pending, and its output waits in the queue.
C2_Witness ==
    /\ Started(<<>>)
    /\ TasksOnly(doc)
    /\ Distinct(WrittenNames(doc))
    /\ ~Bubbles(doc)
    /\ Len(doc) = 3
    /\ \E i \in 1..3 : IsNestedSel(doc[i])
    /\ frames[<<>>].pc = "drain"
    /\ frames[<<>>].next = 1
    /\ frames[<<>>].async_values[3].st = "ready"
    /\ frames[<<>>].async_values[2].st = "ready"

(***************************************************************************)
(* C3.  For every selection set, also one that mixes fields with           *)
(* `__typename` or with inline fragments that have a type condition, the   *)
(* entries of the returned object are in the order in which the selection  *)
(* set writes their response names.                                        *)
(***************************************************************************)
C3_WrittenOrder ==
    \A p \in DOMAIN frames :
        (/\ Done(p)
         /\ frames[p].result # Null
         /\ Distinct(WrittenNames(SelSet(p))))
        => Keys(frames[p].result.o) = WrittenNames(SelSet(p))

(***************************************************************************)
(* C4.  When the hook of a nullable field returns an error, the field's    *)
(* task contributes a null value, the selection set is not short-circuited *)
(* by it, and the returned object holds null under the field's response    *)
(* name and the value of every sibling that resolved.                      *)
(***************************************************************************)
C4_NullableErrorKeepsSiblings ==
    \A p \in DOMAIN frames :
        \A k \in FieldTasks(p) :
            LET sel == SelOfTask(p, k)
            IN  (~sel.res.ok /\ ~is_non_null(sel.name)) =>
                    /\ TaskDone(p, k) => TaskValue(p, k) = Some(Null)
                    /\ (Done(p) /\ ~Bubbles(SelSet(p))) =>
                           NullEntryAmongSiblings(p, sel)

\* A frame returned an object with the null of a failed nullable field next
\* to the value of a sibling.
C4_Witness ==
    \E p \in DOMAIN frames :
        /\ Done(p)
        /\ frames[p].result # Null
        /\ Distinct(WrittenNames(SelSet(p)))
        /\ \E k, j \in FieldTasks(p) :
               /\ ~SelOfTask(p, k).res.ok
               /\ Get(frames[p].result.o, frames[p].async_values[k].name) = Null
               /\ SelOfTask(p, j).res.ok
               /\ Get(frames[p].result.o, frames[p].async_values[j].name) = Scalar("1")

(***************************************************************************)
(* C5.  A field task appends one ExecutionError at the field's start       *)
(* position when its hook returned a failure, and nothing otherwise: the   *)
(* sink holds exactly one error at the position of a field whose task has  *)
(* completed with a failure, and none at the position of any other field,  *)
(* an explicit null of a non-null field included.                          *)
(***************************************************************************)
C5_OneErrorIffHookFailed ==
    \A p \in DOMAIN frames :
        \A k \in FieldTasks(p) :
            ErrorsAt(PosOfTask(p, k)) =
                IF TaskDone(p, k) /\ ~SelOfTask(p, k).res.ok THEN 1 ELSE 0

\* One task has completed with a failure and one with an explicit null of a
\* non-null field.
C5_Witness ==
    \E p \in DOMAIN frames :
        \E k, j \in FieldTasks(p) :
            /\ TaskDone(p, k) /\ ~SelOfTask(p, k).res.ok
            /\ ErrorsAt(PosOfTask(p, k)) = 1
            /\ TaskDone(p, j) /\ SelOfTask(p, j).res = Ok(Null)
            /\ is_non_null(SelOfTask(p, j).name)
            /\ ErrorsAt(PosOfTask(p, j)) = 0

(***************************************************************************)
(* C6.  When a top-level field declared non-null resolves successfully to  *)
(* an explicit null, the response has data = null and a non-empty errors   *)
(* list with an entry whose path is the field's response name.             *)
(***************************************************************************)
C6_NullViolationIsReported ==
    RootDone =>
        \A k \in FieldTasks(<<>>) :
            LET sel == SelOfTask(<<>>, k)
                out == serialize(Response)
            IN  (is_non_null(sel.name) /\ sel.res = Ok(Null)) =>
                    /\ out[1] = KV("data", Null)
                    /\ Len(out) = 2
                    /\ out[2].k = "errors"
                    /\ \E n \in 1..Len(out[2].v) :
                           out[2].v[n].path = <<response_name(sel)>>

(***************************************************************************)
(* C7.  When a nullable field resolves successfully to an explicit null,   *)
(* its task contributes a null value and records no error, and the         *)
(* returned object holds null under its response name and the value of     *)
(* every sibling; `{ id name }` with id = 1 and name = null serializes to  *)
(* the one entry data = {id: 1, name: null}, with no errors entry.         *)
(***************************************************************************)
C7_NullableNullIsAnEntry ==
    /\ \A p \in DOMAIN frames :
           \A k \in FieldTasks(p) :
               LET sel == SelOfTask(p, k)
               IN  (sel.res = Ok(Null) /\ ~is_non_null(sel.name)) =>
                       /\ ErrorsAt(PosOfTask(p, k)) = 0
                       /\ TaskDone(p, k) => TaskValue(p, k) = Some(Null)
                       /\ (Done(p) /\ ~Bubbles(SelSet(p))) =>
                              NullEntryAmongSiblings(p, sel)
    /\ (RootDone /\ doc = <<Field("id", None, FALSE, Ok(Scalar("1"))),
                            Field("name", None, FALSE, Ok(Null))>>)
       => serialize(Response) =
              <<KV("data", Object(<<KV("id", Scalar("1")), KV("name", Null)>>))>>

\* The response to `{ id name }` with id = 1 and name = null is there.
C7_Witness ==
    /\ RootDone
    /\ doc = <<Field("id", None, FALSE, Ok(Scalar("1"))),
               Field("name", None, FALSE, Ok(Null))>>
    /\ frames[<<>>].result.t = "Object"

(***************************************************************************)
(* C8.  When several fields of one selection set have a failing hook, the  *)
(* sink holds one error for each of them when the selection set returns,   *)
(* also when a non-null violation short-circuits it.                       *)
(***************************************************************************)
FailingFields(p) == {k \in FieldTasks(p) : ~SelOfTask(p, k).res.ok}

C8_EveryFailureRecorded ==
    \A p \in DOMAIN frames :
        (Done(p) /\ Cardinality(FailingFields(p)) >= 2) =>
            \A k \in FailingFields(p) : ErrorsAt(PosOfTask(p, k)) = 1

(***************************************************************************)
(* C8, amended.  When the selection set returns, the sink holds one error  *)
(* for every failing field if nothing short-circuited, and after a         *)
(* short-circuit one for every failing field submitted no later than the   *)
(* task that short-circuited; a failing field submitted later has its      *)
(* error in the sink exactly when its task completed before the return.    *)
(***************************************************************************)
C8_FailuresRecordedUpToShortCircuit ==
    \A p \in DOMAIN frames :
        Done(p) =>
            \A k \in FieldTasks(p) :
                ~SelOfTask(p, k).res.ok =>
                    /\ (frames[p].result # Null \/ k =< frames[p].next) =>
                           ErrorsAt(PosOfTask(p, k)) = 1
                    /\ ErrorsAt(PosOfTask(p, k)) = 1 <=> TaskDone(p, k)

\* A selection set returned Null with the error of an earlier failing field
\* in the sink and a later failing field dropped while pending.
C8_Witness ==
    \E p \in DOMAIN frames :
        /\ Done(p)
        /\ frames[p].result = Null
        /\ \E k, j \in FieldTasks(p) :
               /\ k < frames[p].next /\ frames[p].next < j
               /\ ~SelOfTask(p, k).res.ok /\ ErrorsAt(PosOfTask(p, k)) = 1
               /\ ~SelOfTask(p, j).res.ok /\ ~TaskDone(p, j)
               /\ ErrorsAt(PosOfTask(p, j)) = 0

(***************************************************************************)
(* C9.  The error sink only grows: every error in the sink stays in it, at *)
(* its place, in every later state, also after a short-circuit has dropped *)
(* pending siblings of the task that recorded it or has thrown away the    *)
(* object that task contributed to.                                        *)
(***************************************************************************)
C9_SinkIsAppendOnly == [][IsPrefix(errors, errors')]_vars

\* The root returned Null with a sibling still pending, after a nullable
\* field had recorded its error and put its null in the object.
C9_Witness ==
    /\ RootDone
    /\ frames[<<>>].result = Null
    /\ frames[<<>>].object # <<>>
    /\ \E k, j \in FieldTasks(<<>>) :
           /\ frames[<<>>].async_values[k].st = "taken"
           /\ ErrorsAt(PosOfTask(<<>>, k)) = 1
           /\ ~TaskDone(<<>>, j)

(***************************************************************************)
(* C10.  When two selections of a selection set produce the same response  *)
(* name, the returned object has one entry for it: the value of the        *)
(* selection written later, or, when both values are objects, an object    *)
(* with the fields of both.                                                *)
(***************************************************************************)
C10_SameNameLaterWinsObjectsMerge ==
    (/\ RootDone
     /\ frames[<<>>].result # Null
     /\ Len(doc) = 2
     /\ IsFieldSel(doc[1]) /\ IsFieldSel(doc[2])
     /\ response_name(doc[1]) = response_name(doc[2]))
    => LET o == frames[<<>>].result.o
           a == doc[1].res.v
           b == doc[2].res.v
       IN  /\ Len(o) = 1
           /\ o[1].k = response_name(doc[2])
           /\ IF a.t = "Object" /\ b.t = "Object"
              THEN \A n \in 1..Len(a.o) \cup 1..Len(b.o) :
                       /\ n =< Len(a.o) => HasKey(o[1].v.o, a.o[n].k)
                       /\ n =< Len(b.o) => HasKey(o[1].v.o, b.o[n].k)
              ELSE o[1].v = b

(***************************************************************************)
(* C11.  Merging a fragment's fields into the parent object inserts a name *)
(* that is absent, merges field by field when the value there and the new  *)
(* value are both objects, and otherwise replaces the value by the later   *)
(* one: two fragments `{ x { a } }` and `{ x { b } }` give one entry x     *)
(* with a and b.                                                           *)
(***************************************************************************)
IsTypedObject(sel) ==
    /\ ~sel.excluded
    /\ sel.kind = "InlineFragment"
    /\ sel.type_condition.some
    /\ sel.res.ok
    /\ sel.res.v.t = "Object"

\* The object the fragment at place i of frame p contributed.
FragmentObject(p, i) ==
    IF IsTypedObject(SelSet(p)[i])
    THEN SelSet(p)[i].res.v.o
    ELSE frames[Append(p, i)].result.o

NewKeys(a, b) == SelectSeq(Keys(b), LAMBDA k : ~HasKey(a, k))

\* `m` is `a` with the fields of `b` merged into it, the objects under a
\* common name merged one level down.
IsMergeOf(m, a, b) ==
    /\ Keys(m) = Keys(a) \o NewKeys(a, b)
    /\ \A n \in 1..Len(m) :
           LET k == m[n].k
           IN  IF ~HasKey(b, k) THEN m[n].v = Get(a, k)
               ELSE IF ~HasKey(a, k) THEN m[n].v = Get(b, k)
               ELSE IF Get(a, k).t = "Object" /\ Get(b, k).t = "Object"
               THEN /\ m[n].v.t = "Object"
                    /\ Keys(m[n].v.o) = Keys(Get(a, k).o) \o NewKeys(Get(a, k).o, Get(b, k).o)
                    /\ \A j \in 1..Len(m[n].v.o) :
                           LET kk == m[n].v.o[j].k
                           IN  m[n].v.o[j].v =
                                   IF HasKey(Get(b, k).o, kk)
                                   THEN Get(Get(b, k).o, kk)
                                   ELSE Get(Get(a, k).o, kk)
               ELSE m[n].v = Get(b, k)

\* Two fragments, the first merged no later than the second.
TwoFragments(p) ==
    /\ Done(p)
    /\ frames[p].result # Null
    /\ Len(SelSet(p)) = 2
    /\ \A i \in 1..2 : IsTypedObject(SelSet(p)[i]) \/ IsNestedSel(SelSet(p)[i])
    /\ IsTypedObject(SelSet(p)[2]) => IsTypedObject(SelSet(p)[1])

C11_FragmentFieldsMerge ==
    \A p \in DOMAIN frames :
        TwoFragments(p) =>
            IsMergeOf(frames[p].result.o, FragmentObject(p, 1), FragmentObject(p, 2))

\* `... on T { x { a } d } ... on T { x { b } d }` returned x = {a, b} and
\* the later d.
C11_Witness ==
    /\ RootDone
    /\ TwoFragments(<<>>)
    /\ IsTypedObject(doc[1]) /\ IsTypedObject(doc[2])
    /\ frames[<<>>].result =
           Object(<<KV("x", Object(<<KV("a", Scalar("1")), KV("b", Scalar("2"))>>)),
                    KV("d", Scalar("4"))>>)

(***************************************************************************)
(* C12.  Serializing a GraphQLResponse writes `data` always, and `errors`  *)
(* only when the error list is non-empty, if the result is Ok; it writes   *)
(* only `errors`, and no `data` key, if the result is Err.                 *)
(***************************************************************************)
Serialized == response.kind = "GraphQLResponse" /\ output.t = "Serialized"

C12_SerializedEntries ==
    Serialized =>
        LET r == response.r
            map == output.map
        IN  IF r.ok
            THEN /\ HasKey(map, "data")
                 /\ Get(map, "data") = r.v.data
                 /\ HasKey(map, "errors") <=> r.v.errors # <<>>
                 /\ HasKey(map, "errors") => Get(map, "errors") = r.v.errors
                 /\ \A n \in 1..Len(map) : map[n].k \in {"data", "errors"}
            ELSE /\ Keys(map) = <<"errors">>
                 /\ Get(map, "errors") = r.e

\* An Ok response with no execution error has been serialized.
C12_Witness ==
    /\ Serialized
    /\ response.r.ok
    /\ response.r.v.errors = <<>>
    /\ Keys(output.map) = <<"data">>

(***************************************************************************)
(* Conversions of a subscription response into a sequence of envelopes.    *)
(***************************************************************************)
Called == output # NotCalled

IntoStreamCalled == response.kind = "StreamGraphQLResponse" /\ Called

IntoIterCalled == response.kind = "IteratorGraphQLResponse" /\ Called

\* The returned sequence is `all`, of which the consumer has taken a prefix.
YieldsExactly(all) ==
    /\ output.t = "Some"
    /\ Len(yielded) + Len(output.items) = Len(all)
    /\ \A n \in 1..Len(yielded) : n =< Len(all) /\ yielded[n] = all[n]

\* An object with one top-level field that holds a stream.
IsOneStreamObject(r) ==
    /\ r.ok
    /\ r.v.t = "Object"
    /\ Len(r.v.o) = 1
    /\ r.v.o[1].v.t = "Scalar"

(***************************************************************************)
(* C13.  For a subscription resolved to an object with one top-level       *)
(* stream-valued field, into_stream yields one envelope per value of the   *)
(* field's stream, in the stream's order, each with data = {field: value}, *)
(* and ends when the stream ends.                                          *)
(***************************************************************************)
C13_ObjectStreamYieldsEnvelopes ==
    (IntoStreamCalled /\ IsOneStreamObject(response.r)) =>
        LET field == response.r.v.o[1]
        IN  YieldsExactly([n \in 1..Len(field.v.v) |->
                Ok([data |-> Object(<<KV(field.k, field.v.v[n])>>),
                    errors |-> <<>>])])

(***************************************************************************)
(* C18.  When a subscription result is an error, into_stream gives a       *)
(* sequence with a single error envelope: the error neither makes the      *)
(* conversion return no sequence nor aborts it.                            *)
(***************************************************************************)
C18_ErrorGivesOneErrorEnvelope ==
    (IntoStreamCalled /\ ~response.r.ok) =>
        YieldsExactly(<<from_result(Err(response.r.e))>>)

(***************************************************************************)
(* C19.  For a subscription result whose value is Value::Null, into_stream *)
(* and into_iter return a sequence that yields exactly one envelope, which *)
(* wraps Value::Null.                                                      *)
(***************************************************************************)
C19_NullGivesOneNullEnvelope ==
    ((IntoStreamCalled \/ IntoIterCalled) /\ response.r = Ok(Null)) =>
        YieldsExactly(<<Envelope(Null)>>)

(***************************************************************************)
(* C20.  into_iter returns None when the wrapped result is an error or a   *)
(* Value::List, and does not abort for either.                             *)
(***************************************************************************)
C20_IntoIterNoneForErrorAndList ==
    (IntoIterCalled /\ (~response.r.ok \/ response.r.v.t = "List")) =>
        output = NoneOut

(***************************************************************************)
(* C14.  The resolver never fails: whenever every invoked hook and every   *)
(* fragment resolution eventually completes, it eventually returns Null or *)
(* an Object; a field failure shows only as an entry of the error sink.    *)
(***************************************************************************)
Returned == RootDone /\ frames[<<>>].result.t \in {"Null", "Object"}

C14_ResolverReturns == <>Returned

\* A hook failed, and the resolver returned an object.
C14_Witness ==
    /\ RootDone
    /\ errors # <<>>
    /\ frames[<<>>].result.t = "Object"

(***************************************************************************)
(* C15.  A schema-contract violation (the type is not registered, a        *)
(* selected field is absent from the type's metadata, or the type has no   *)
(* field-resolution logic) aborts the whole request: no response value is  *)
(* produced and nothing is recorded in the sink for it; a missing field is *)
(* detected during the walk, before any hook of that selection set runs.   *)
(***************************************************************************)
IsMissingField(sel) == IsFieldSel(sel) /\ sel.name \notin schema.fields

HasMissingField(selection_set) ==
    \E i \in 1..Len(selection_set) : IsMissingField(selection_set[i])

HasHook(selection_set) ==
    \E i \in 1..Len(selection_set) : IsFieldSel(selection_set[i])

\* The call at p breaks the contract.
Violates(p) ==
    \/ ~schema.registered
    \/ HasMissingField(SelSet(p))
    \/ ~schema.resolves /\ HasHook(SelSet(p))

C15_ContractViolationAborts ==
    /\ \A p \in DOMAIN frames : ~Violates(p)
    /\ (Violates(<<>>) \/ panic.some) => ~RootDone
    /\ panic.some =>
           LET at == panic.v.frame
           IN  /\ Violates(at)
               /\ at \notin DOMAIN frames
               /\ \A i \in 1..Len(SelSet(at)) :
                      IsFieldSel(SelSet(at)[i]) => ErrorsAt(Append(at, i)) = 0
               /\ ~schema.registered => errors = <<>>

\* A fragment's missing field aborted the request after a hook of the
\* enclosing selection set had failed and been recorded.
C15_Witness ==
    /\ panic.some
    /\ panic.v.msg = "Field not found on type"
    /\ panic.v.frame # <<>>
    /\ errors # <<>>
    /\ ~RootDone

(***************************************************************************)
(* C16.  Two runs of the resolver on the same selection set, instance and  *)
(* context, with hooks that return the same outcomes, return structurally  *)
(* identical trees whatever the order in which the field tasks complete:   *)
(* the returned tree is the one the run that completes every task in       *)
(* submission order returns.                                               *)
(***************************************************************************)
RECURSIVE ResolveInOrder(_, _)

RECURSIVE DrainInOrder(_, _, _, _, _)

\* The value of the task `item` of the call at p, its hook or its nested
\* call having returned.
OutputInOrder(selection_set, p, item) ==
    LET sel == selection_set[item.idx]
    IN  IF item.kind = "Field"
        THEN field_future(<<>>, sel.res, is_non_null(sel.name),
                          Append(p, item.idx), <<item.name>>).value
        ELSE Some(ResolveInOrder(sel.sub, Append(p, item.idx)))

DrainInOrder(selection_set, p, async_values, k, object) ==
    IF k > Len(async_values)
    THEN Object(object)
    ELSE LET item == [async_values[k] EXCEPT
                         !.value = OutputInOrder(selection_set, p, async_values[k])]
             r == DrainItem(object, item)
         IN  IF r.ret
             THEN Null
             ELSE DrainInOrder(selection_set, p, async_values, k + 1, r.object)

ResolveInOrder(selection_set, p) ==
    LET w == WalkFrom(selection_set, p, 1,
                      [object |-> <<>>, async_values |-> <<>>,
                       errors |-> <<>>, panic |-> None, ret |-> FALSE])
    IN  DrainInOrder(selection_set, p, w.async_values, 1, w.object)

C16_SameTreeWhateverTheOrder ==
    RootDone => frames[<<>>].result = ResolveInOrder(doc, <<>>)

\* A run in which the second field's hook failed before the first one's did,
\* and which returned an object.
C16_Witness ==
    /\ RootDone
    /\ frames[<<>>].result.t = "Object"
    /\ Len(errors) = 2
    /\ errors[1].location = <<2>>
    /\ errors[2].location = <<1>>

(***************************************************************************)
(* C17.  In every state of a selection-set resolution, and in the object   *)
(* finally returned, no response name occurs more than once in the         *)
(* accumulating object, whatever mix of fields, aliases, `__typename` and  *)
(* fragments contributed to it.                                            *)
(***************************************************************************)
UniqueKeys(object) == Distinct(Keys(object))

C17_ResponseNamesAreUnique ==
    \A p \in DOMAIN frames :
        /\ UniqueKeys(frames[p].object)
        /\ Done(p) /\ frames[p].result # Null => UniqueKeys(frames[p].result.o)

\* A field and a fragment that writes the field's response name again both
\* contributed to the returned object.
C17_Witness ==
    /\ RootDone
    /\ frames[<<>>].result # Null
    /\ \E i, k \in 1..Len(doc) :
           /\ IsFieldSel(doc[i])
           /\ ~doc[k].excluded /\ doc[k].kind # "Field"
           /\ \E n \in 1..Len(WrittenNames(<<doc[k]>>)) :
                  WrittenNames(<<doc[k]>>)[n] = response_name(doc[i])
    /\ Len(frames[<<>>].result.o) < Len(WrittenNames(doc))

(***************************************************************************)
(* C21.  is_ok returns true exactly when the wrapped result is Ok: it is   *)
(* true for a response with a non-empty execution-error list, data = null  *)
(* after a non-null bubble included, and false only for a request-level    *)
(* error.                                                                  *)
(***************************************************************************)
IsOkCalled == response.kind = "GraphQLResponse" /\ output.t = "IsOk"

C21_IsOkIffResultOk ==
    IsOkCalled =>
        /\ output.b <=> response.r.ok
        /\ (response.r.ok /\ response.r.v.errors # <<>>) => output.b
        /\ ~output.b => response.r \in {Err(e) : e \in GraphQLErrors}

\* is_ok answered true for data = null with an execution error.
C21_Witness ==
    /\ IsOkCalled
    /\ response.r.ok
    /\ response.r.v.data = Null
    /\ response.r.v.errors # <<>>
    /\ output.b

(***************************************************************************)
(* C22.  A request that cannot be executed at all (its query does not      *)
(* parse, or selects a field absent from the schema) yields a response for *)
(* which is_ok is false and which the integration answers with status 400; *)
(* a request that executes yields status 200; for GET and POST alike.      *)
(***************************************************************************)
Handled == request # NoRequest /\ output.t = "TestResponse"

Executes(query) == Parses(query) /\ Validates(query)

Valueless(p, k) ==
    /\ TaskDone(p, k)
    /\ IF frames[p].async_values[k].kind = "Field"
       THEN TaskValue(p, k) = None
       ELSE TaskValue(p, k) = Some(Null)

Drained(p) == {k \in TaskIndexes(p) : frames[p].async_values[k].st = "taken"}

ReturnedNull(p) == Done(p) /\ frames[p].result = Null

C23_NullWhenFirstValuelessDrained ==
    \A p \in DOMAIN frames :
        /\ \A k \in Drained(p) : \A j \in 1..(k - 1) : j \in Drained(p)
        /\ ReturnedNull(p) <=> \E k \in Drained(p) : Valueless(p, k)
        /\ \A k \in Drained(p) :
               Valueless(p, k) =>
                   /\ \A j \in 1..(k - 1) : ~Valueless(p, j)
                   /\ \A j \in TaskIndexes(p) : j > k => j \notin Drained(p)
        /\ \A k \in TaskIndexes(p) :
               (/\ Valueless(p, k)
                /\ \A j \in 1..(k - 1) : ~Valueless(p, j)
                /\ \E j \in 1..(k - 1) : ~TaskDone(p, j)) => ~Done(p)

\* The second task completed without a value before the first one completed;
\* the resolver returned Null once the first was drained, the third pending.
C23_Witness ==
    /\ ReturnedNull(<<>>)
    /\ Len(frames[<<>>].async_values) = 3
    /\ Drained(<<>>) = {1, 2}
    /\ ~Valueless(<<>>, 1)
    /\ Valueless(<<>>, 2)
    /\ ~TaskDone(<<>>, 3)
    /\ Len(errors) = 2
    /\ errors[1].location = <<2>>
    /\ errors[2].location = <<1>>


(***************************************************************************)
(* C24.  A fragment spread or an inline fragment without type condition    *)
(* that resolves to Null makes the enclosing selection set Null; when it   *)
(* resolves to an object, each of its fields is merged into the enclosing  *)
(* object at the place the fragment has in the drain order.                *)
(***************************************************************************)
\* The object frame p holds when its walk is over.
WalkObject(p) ==
    WalkFrom(SelSet(p), p, 1,
             [object |-> <<>>, async_values |-> <<>>,
              errors |-> <<>>, panic |-> None, ret |-> FALSE]).object

RECURSIVE ObjectAfter(_, _)

\* The object of frame p once the outputs of its first n tasks are in it:
\* a field inserted under its response name, the fields of a fragment's
\* object merged one by one.
ObjectAfter(p, n) ==
    IF n = 0
    THEN WalkObject(p)
    ELSE LET a == ObjectAfter(p, n - 1)
             t == frames[p].async_values[n]
         IN  IF t.kind = "Field"
             THEN add_field(a, t.name, t.value.v)
             ELSE MergeFields(a, t.value.v.o)

FragmentTask(p, k) == frames[p].async_values[k].kind = "Nested"

Merged(p) == {k \in Drained(p) : ~Valueless(p, k)}

C24_FragmentNullOrMerged ==
    \A p \in DOMAIN frames :
        /\ \A k \in Drained(p) :
               (FragmentTask(p, k) /\ TaskValue(p, k) = Some(Null)) => ReturnedNull(p)
        /\ frames[p].object = ObjectAfter(p, Cardinality(Merged(p)))
        /\ (Done(p) /\ ~ReturnedNull(p)) =>
               /\ Merged(p) = TaskIndexes(p)
               /\ frames[p].result = Object(frames[p].object)

\* `...F ...{ id }`: the spread's x and d were merged in, then the inline
\* fragment without type condition resolved to null and so did the whole.
C24_Witness ==
    /\ ReturnedNull(<<>>)
    /\ Len(frames[<<>>].async_values) = 2
    /\ FragmentTask(<<>>, 1) /\ FragmentTask(<<>>, 2)
    /\ Drained(<<>>) = {1, 2}
    /\ TaskValue(<<>>, 1).v.t = "Object"
    /\ TaskValue(<<>>, 2) = Some(Null)
    /\ frames[<<>>].object = TaskValue(<<>>, 1).v.o
    /\ Len(frames[<<>>].object) = 2


(***************************************************************************)
(* C25.  When the type-narrowing for an inline fragment with a type        *)
(* condition succeeds with a null value (a non-null field inside the       *)
(* fragment resolved to null), the value of the enclosing selection set is *)
(* Null, as for a non-null violation of a direct field.                    *)
(***************************************************************************)
IsTypedNull(sel) ==
    /\ ~sel.excluded
    /\ sel.kind = "InlineFragment"
    /\ sel.type_condition.some
    /\ sel.res = Ok(Null)

C25_TypedFragmentNullBubbles ==
    \A p \in DOMAIN frames :
        (Done(p) /\ \E i \in 1..Len(SelSet(p)) : IsTypedNull(SelSet(p)[i]))
            => frames[p].result = Null


(***************************************************************************)
(* C26.  In the query resolver and in the stream resolver, when the        *)
(* type-narrowing for an inline fragment with a type condition fails,      *)
(* exactly one error is recorded at the fragment's start position, nothing *)
(* of the fragment is merged, the selection set is not short-circuited,    *)
(* and the remaining selections are still resolved and returned.           *)
(***************************************************************************)
FailedNarrowing(sel) ==
    /\ ~sel.excluded
    /\ sel.kind = "InlineFragment"
    /\ sel.type_condition.some
    /\ ~sel.res.ok

Others(selection_set) == SelectSeq(selection_set, LAMBDA sel : ~FailedNarrowing(sel))

ErrorsOf(pos) == {n \in 1..Len(errors) : errors[n].location = pos}

C26_FailedNarrowingOnlyRecords ==
    \A p \in DOMAIN frames : \A i \in 1..Len(SelSet(p)) :
        FailedNarrowing(SelSet(p)[i]) =>
            /\ ErrorsAt(Append(p, i)) = 1
            /\ \A n \in ErrorsOf(Append(p, i)) :
                   errors[n] = ExecutionError(SelSet(p)[i].res.e, Append(p, i), <<>>)
            /\ Done(p) => frames[p].result = ResolveInOrder(Others(SelSet(p)), p)

\* The stream resolver returned the object of the other two selections of
\* `{ ... on T (fails) ... on T { x d } d: name }`, one error recorded.
C26_Witness ==
    /\ resolver = "stream"
    /\ RootDone
    /\ Len(doc) = 3
    /\ FailedNarrowing(doc[1])
    /\ IsTypedObject(doc[2])
    /\ IsFieldSel(doc[3])
    /\ errors = <<ExecutionError("e", <<1>>, <<>>)>>
    /\ frames[<<>>].result =
           Object(<<KV("x", ObjA), KV("d", Scalar("2"))>>)


(***************************************************************************)
(* C27.  A selection (field, `__typename`, fragment spread or inline       *)
(* fragment) excluded by a directive contributes nothing: no entry in the  *)
(* object, no scheduled task, no call of a resolution or type-narrowing    *)
(* hook, no lookup of the field in the schema, and no recorded error.      *)
(***************************************************************************)
NotExcluded(selection_set) == SelectSeq(selection_set, LAMBDA sel : ~sel.excluded)

ExcludedAt(p, i) == i \in 1..Len(SelSet(p)) /\ SelSet(p)[i].excluded

C27_ExcludedContributesNothing ==
    /\ \A p \in DOMAIN frames : \A i \in 1..Len(SelSet(p)) :
           SelSet(p)[i].excluded =>
               /\ \A k \in TaskIndexes(p) : frames[p].async_values[k].idx # i
               /\ Append(p, i) \notin DOMAIN frames
               /\ \A n \in 1..Len(errors) : ~IsPrefix(Append(p, i), errors[n].location)
    /\ \A p \in DOMAIN frames :
           Done(p) => frames[p].result = ResolveInOrder(NotExcluded(SelSet(p)), p)
    /\ panic.some => ~ExcludedAt(panic.v.frame, panic.v.sel)

\* `{ gone @skip  ...F @skip  name }` returned { name } with no error and
\* no panic.
C27_Witness ==
    /\ RootDone
    /\ ~panic.some
    /\ Len(doc) = 3
    /\ doc[1].excluded /\ doc[1].kind = "Field" /\ doc[1].name = "gone"
    /\ doc[2].excluded /\ doc[2].kind = "FragmentSpread"
    /\ ~doc[3].excluded /\ doc[3].kind = "Field"
    /\ Len(frames[<<>>].async_values) = 1
    /\ frames[<<>>].result = Object(<<KV("name", Scalar("2"))>>)
    /\ errors = <<>>


(***************************************************************************)
(* C28.  A `__typename` field that is not excluded is resolved during the  *)
(* walk, with no task scheduled, no lookup of the field's metadata and no  *)
(* call of the field-resolution hook; its entry, under the alias or        *)
(* `__typename`, holds the concrete type name of the instance, and it can  *)
(* never cause a null short-circuit or an error.                           *)
(***************************************************************************)
IsTypename(sel) == ~sel.excluded /\ sel.kind = "Field" /\ sel.name = "__typename"

TypenameAt(p, i) == i \in 1..Len(SelSet(p)) /\ IsTypename(SelSet(p)[i])

NotTypename(selection_set) == SelectSeq(selection_set, LAMBDA sel : ~IsTypename(sel))

\* The walk of frame p after its first n selections.
WalkUpTo(p, n) ==
    WalkFrom(SubSeq(SelSet(p), 1, n), p, 1,
             [object |-> <<>>, async_values |-> <<>>,
              errors |-> <<>>, panic |-> None, ret |-> FALSE])

Occurrences(names, name) == Cardinality({n \in 1..Len(names) : names[n] = name})

C28_TypenameResolvedInWalk ==
    /\ \A p \in DOMAIN frames : \A i \in 1..Len(SelSet(p)) :
           IsTypename(SelSet(p)[i]) =>
               LET name == response_name(SelSet(p)[i])
                   before == WalkUpTo(p, i - 1)
                   after == WalkUpTo(p, i)
               IN  /\ \A k \in TaskIndexes(p) : frames[p].async_values[k].idx # i
                   /\ ErrorsAt(Append(p, i)) = 0
                   /\ after.async_values = before.async_values
                   /\ after.errors = before.errors
                   /\ after.panic = before.panic
                   /\ HasKey(after.object, name)
                   /\ Get(after.object, name) = Scalar(concrete_type_name)
                   /\ (/\ Done(p)
                       /\ frames[p].result # Null
                       /\ Occurrences(WrittenNames(SelSet(p)), name) = 1)
                          => /\ HasKey(frames[p].result.o, name)
                             /\ Get(frames[p].result.o, name) = Scalar(concrete_type_name)
    /\ \A p \in DOMAIN frames :
           Done(p) =>
               (frames[p].result = Null
                    <=> ResolveInOrder(NotTypename(SelSet(p)), p) = Null)
    /\ panic.some => ~TypenameAt(panic.v.frame, panic.v.sel)
    /\ (panic.some /\ panic.v.sel = 0 /\ schema.registered) =>
           \E i \in 1..Len(SelSet(panic.v.frame)) : IsFieldSel(SelSet(panic.v.frame)[i])

\* `{ __typename }` on a type that does not implement the field hook
\* returned { __typename: "T" }: no hook was called, nothing panicked.
C28_Witness ==
    /\ ~schema.resolves
    /\ schema.registered
    /\ ~panic.some
    /\ RootDone
    /\ \E i \in 1..Len(doc) : IsTypename(doc[i])
    /\ frames[<<>>].async_values = <<>>
    /\ frames[<<>>].result = Object(<<KV("__typename", Scalar(concrete_type_name))>>)
    /\ errors = <<>>


(***************************************************************************)
(* C29.  Every task scheduled for a selection set is consumed exactly once *)
(* by the drain loop when its future completes: no task result is merged   *)
(* twice, and no completed task's result is left unconsumed when the       *)
(* resolution returns.                                                     *)
(***************************************************************************)
Consumed(p, k) == frames[p].async_values[k].st = "taken"

Unconsumed(p) ==
    {k \in TaskIndexes(p) : frames[p].async_values[k].st = "ready"}

C29_EveryCompletedTaskConsumed ==
    \A p \in DOMAIN frames :
        /\ frames[p].object = ObjectAfter(p, Cardinality(Merged(p)))
        /\ Done(p) => Unconsumed(p) = {}

(***************************************************************************)
(* C29, amended.  A task is consumed at most once, in submission order and *)
(* as soon as its future and those of the tasks before it have completed;  *)
(* a resolution that returns an object has consumed every task exactly     *)
(* once, and one that short-circuits has consumed the tasks up to the one  *)
(* without a value and drops the later ones, completed or not.             *)
(***************************************************************************)
C29_ConsumedOnceUpToShortCircuit ==
    \A p \in DOMAIN frames :
        /\ frames[p].object = ObjectAfter(p, Cardinality(Merged(p)))
        /\ \A k \in TaskIndexes(p) :
               Consumed(p, k) => \A j \in 1..(k - 1) : Consumed(p, j) /\ ~Valueless(p, j)
        /\ ~Done(p) =>
               /\ Unconsumed(p) \cap {k \in TaskIndexes(p) : \A j \in 1..(k - 1) : Consumed(p, j)} = {}
               /\ \A k \in TaskIndexes(p) : Consumed(p, k) => ~Valueless(p, k)
        /\ (Done(p) /\ ~ReturnedNull(p)) => \A k \in TaskIndexes(p) : Consumed(p, k)
        /\ ReturnedNull(p) =>
               \E k \in TaskIndexes(p) :
                   /\ Consumed(p, k)
                   /\ Valueless(p, k)
                   /\ \A j \in TaskIndexes(p) : j > k => ~Consumed(p, j)

\* `{ a b c }`: c completed first, then a without a value: the resolver
\* returned Null, c's result never consumed and b never completed.
C29_Witness ==
    /\ ReturnedNull(<<>>)
    /\ Len(frames[<<>>].async_values) = 3
    /\ Consumed(<<>>, 1)
    /\ frames[<<>>].async_values[2].st = "pending"
    /\ Unconsumed(<<>>) = {3}


(***************************************************************************)
(* C30.  The accumulating object of a selection set is written only by the *)
(* one task that walks and drains that selection set: field and fragment   *)
(* tasks that run concurrently never write it, and they hand their result  *)
(* over only through the drain step.                                       *)
(***************************************************************************)
TakenIn(fr, p) ==
    {k \in 1..Len(fr[p].async_values) : fr[p].async_values[k].st = "taken"}

\* Frame p's object changes only in a step in which frame p, awaiting its
\* queue, consumes outputs.
WrittenByDrainOnly(p) ==
    frames'[p].object # frames[p].object =>
        /\ frames[p].pc = "drain"
        /\ TakenIn(frames, p) # TakenIn(frames', p)
        /\ TakenIn(frames, p) \subseteq TakenIn(frames', p)

\* A frame starts with the object of its walk, before any of its tasks ran.
BornFromWalk(p) ==
    (p \notin DOMAIN frames /\ p \in DOMAIN frames') =>
        /\ frames'[p].object = WalkObject(p)
        /\ TakenIn(frames', p) = {}

OwnedByItsResolver ==
    /\ \A p \in DOMAIN frames : p \in DOMAIN frames' /\ WrittenByDrainOnly(p)
    /\ \A p \in DOMAIN frames' : BornFromWalk(p)

C30_ObjectOwnedByItsResolver == [][OwnedByItsResolver]_vars

\* The second field's future completed with a value while the first is
\* pending: the value waits in the queue, the object is still empty.
C30_Witness ==
    /\ Started(<<>>)
    /\ ~Done(<<>>)
    /\ Len(frames[<<>>].async_values) >= 2
    /\ frames[<<>>].async_values[1].st = "pending"
    /\ frames[<<>>].async_values[2].st = "ready"
    /\ frames[<<>>].async_values[2].kind = "Field"
    /\ TaskValue(<<>>, 2).some
    /\ TaskValue(<<>>, 2).v # Null
    /\ frames[<<>>].object = <<>>


(***************************************************************************)
(* C31.  The stream resolver applies the null/error reduction and the      *)
(* drain rule of the query resolver: for the same nullability and the same *)
(* hook outcome of every field, it returns Null exactly when the query     *)
(* resolver does, otherwise an object with the same response names in the  *)
(* same order, and it records the same errors.                             *)
(***************************************************************************)
RECURSIVE QueryWalkFrom(_, _, _, _)

\* The walk of the query resolver.
QueryWalkFrom(selection_set, p, i, acc) ==
    IF i > Len(selection_set) \/ acc.panic.some
    THEN acc
    ELSE LET sel == selection_set[i]
             pos == Append(p, i)
         IN  QueryWalkFrom(selection_set, p, i + 1,
                 CASE sel.kind = "Field" -> WalkField(sel, i, pos, acc)
                   [] sel.kind = "FragmentSpread" -> WalkFragmentSpread(sel, i, pos, acc)
                   [] sel.kind = "InlineFragment" -> WalkInlineFragment(sel, i, pos, acc))

RECURSIVE QueryRun(_, _, _)

RECURSIVE QueryDrain(_, _, _, _, _, _)

\* The query resolver's drain of the tasks from k on, each completing when
\* the loop awaits it: the returned value and the sink.
QueryDrain(selection_set, p, async_values, k, object, sink) ==
    IF k > Len(async_values)
    THEN [value |-> Object(object), errors |-> sink]
    ELSE LET t == async_values[k]
             sel == selection_set[t.idx]
             out == IF t.kind = "Field"
                    THEN field_future(sink, sel.res, is_non_null(sel.name),
                                      Append(p, t.idx), <<t.name>>)
                    ELSE LET n == QueryRun(sel.sub, Append(p, t.idx), sink)
                         IN  [value |-> Some(n.value), errors |-> n.errors]
             r == DrainItem(object, [t EXCEPT !.value = out.value])
         IN  IF r.ret
             THEN [value |-> Null, errors |-> out.errors]
             ELSE QueryDrain(selection_set, p, async_values, k + 1, r.object, out.errors)

QueryRun(selection_set, p, sink) ==
    LET w == QueryWalkFrom(selection_set, p, 1,
                           [object |-> <<>>, async_values |-> <<>>,
                            errors |-> sink, panic |-> None, ret |-> FALSE])
    IN  QueryDrain(selection_set, p, w.async_values, 1, w.object, w.errors)

RECURSIVE FieldsAndSpreads(_)

\* A selection set of fields and fragment spreads, at every depth.
FieldsAndSpreads(selection_set) ==
    \A i \in 1..Len(selection_set) :
        \/ selection_set[i].kind = "Field"
        \/ /\ selection_set[i].kind = "FragmentSpread"
           /\ FieldsAndSpreads(selection_set[i].sub)

ErrorSet(sink) == {sink[n] : n \in 1..Len(sink)}

StreamRunDone == resolver = "stream" /\ RootDone /\ FieldsAndSpreads(doc)

IsUntypedInline(sel) ==
    /\ ~sel.excluded
    /\ sel.kind = "InlineFragment"
    /\ ~sel.type_condition.some

C32_StreamUntypedInlineIsTask ==
    resolver = "stream" =>
        \A p \in DOMAIN frames : \A i \in 1..Len(SelSet(p)) :
            IsUntypedInline(SelSet(p)[i]) =>
                /\ \E k \in TaskIndexes(p) :
                       /\ frames[p].async_values[k].idx = i
                       /\ frames[p].async_values[k].kind = "Nested"
                /\ ErrorsAt(Append(p, i)) = 0


(***************************************************************************)
(* C33.  In the stream resolver, a `__typename` field that is not excluded *)
(* becomes a stream that yields exactly one value, the concrete type name  *)
(* of the instance, and then ends; it is inserted under its response name  *)
(* and no task is scheduled for it.                                        *)
(***************************************************************************)
TypenameStream == Scalar(<<Scalar(concrete_type_name)>>)

C33_StreamTypenameIsOneEvent ==
    resolver = "stream" =>
        \A p \in DOMAIN frames : \A i \in 1..Len(SelSet(p)) :
            IsTypename(SelSet(p)[i]) =>
                LET name == response_name(SelSet(p)[i])
                    before == WalkUpTo(p, i - 1)
                    after == WalkUpTo(p, i)
                IN  /\ \A k \in TaskIndexes(p) : frames[p].async_values[k].idx # i
                    /\ after.async_values = before.async_values
                    /\ after.errors = before.errors
                    /\ HasKey(after.object, name)
                    /\ Get(after.object, name) = TypenameStream
                    /\ Len(Get(after.object, name).v) = 1
                    /\ (/\ Done(p)
                        /\ frames[p].result # Null
                        /\ Occurrences(WrittenNames(SelSet(p)), name) = 1)
                           => Get(frames[p].result.o, name) = TypenameStream

\* The stream resolver returned { __typename: stream of "T", d } for
\* `{ __typename  d: name }`, with the one task of d.
C33_Witness ==
    /\ resolver = "stream"
    /\ RootDone
    /\ Len(doc) = 2
    /\ IsTypename(doc[1])
    /\ IsFieldSel(doc[2])
    /\ Len(frames[<<>>].async_values) = 1
    /\ frames[<<>>].result # Null
    /\ Keys(frames[<<>>].result.o) = <<"__typename", "d">>
    /\ Get(frames[<<>>].result.o, "__typename") = TypenameStream


(***************************************************************************)
(* C34.  For a subscription result whose value is a Value::Scalar stream   *)
(* (or iterator), into_stream (and into_iter) yields exactly one envelope  *)
(* per item of the underlying sequence, in the same order, each an Ok      *)
(* result with the item as data and an empty error list, and the output    *)
(* ends exactly when the underlying sequence ends.                         *)
(***************************************************************************)
ScalarSequenceConverted ==
    /\ response.kind \in {"IteratorGraphQLResponse", "StreamGraphQLResponse"}
    /\ response.r.ok
    /\ response.r.v.t = "Scalar"
    /\ output # NotCalled

C34_ScalarSequenceEnvelopes ==
    ScalarSequenceConverted =>
        LET items == response.r.v.v
            n == Len(yielded)
        IN  /\ output.t = "Some"
            /\ n =< Len(items)
            /\ \A i \in 1..n :
                   /\ yielded[i] = from_result(Ok([data |-> items[i], errors |-> <<>>]))
                   /\ is_ok(yielded[i])
            /\ output.items = SubSeq(items, n + 1, Len(items))
            /\ output.items = <<>> <=> n = Len(items)

\* A stream of three items, the second null, consumed to its end.
C34_Witness ==
    /\ ScalarSequenceConverted
    /\ response.kind = "StreamGraphQLResponse"
    /\ Len(response.r.v.v) = 3
    /\ response.r.v.v[2] = Null
    /\ response.r.v.v[1] # response.r.v.v[3]
    /\ Len(yielded) = 3
    /\ output = SomeOut(<<>>)


(***************************************************************************)
(* C35.  GraphQLResponse::error(e) builds a response whose result is Ok,   *)
(* with null data and an error list holding exactly the one error e placed *)
(* at the origin; is_ok is therefore true for it, and its serialized       *)
(* envelope has both a `data` key (null) and an `errors` key.              *)
(***************************************************************************)
BuiltByError == response.kind = "GraphQLResponse" /\ "error" \in DOMAIN response

C35_ErrorResponseIsOkWithNullData ==
    BuiltByError =>
        LET r == response.r
            e == [error |-> response.error, location |-> new_origin, path |-> <<>>]
        IN  /\ r.ok
            /\ r.v.data = Null
            /\ r.v.errors = <<e>>
            /\ is_ok(r)
            /\ output.t = "IsOk" => output.b
            /\ output.t = "Serialized" =>
                   output.map = <<KV("data", Null), KV("errors", <<e>>)>>

\* The response built for the error "f" was serialized.
C35_Witness ==
    /\ BuiltByError
    /\ response.error = "f"
    /\ output.t = "Serialized"
    /\ Keys(output.map) = <<"data", "errors">>


(***************************************************************************)
(* C36.  A GraphQLOverWs session starts in phase SessionInit, and over any *)
(* sequence of handle_request calls the phase only ever moves from         *)
(* SessionInit to Connected: once Connected it stays Connected for every   *)
(* later message, connection_terminate and a repeated connection_init      *)
(* included.                                                               *)
(***************************************************************************)
HandledOf(type_name) == {n \in 1..Len(handled) : handled[n] = type_name}

C36_PhaseOnlyAdvances ==
    /\ handled = <<>> => session.phase = "SessionInit"
    /\ session.phase \in {"SessionInit", "Connected"}
    /\ session.phase = "Connected" <=> HandledOf("ConnectionInit") # {}

\* connection_init, connection_terminate, connection_init, stop: Connected.
C36_Witness ==
    /\ handled = <<"ConnectionInit", "ConnectionTerminate", "ConnectionInit", "Stop">>
    /\ session.phase = "Connected"

(***************************************************************************)
(* C37.  handle_request on a connection_init message calls the handler's   *)
(* on_connect exactly once and then sets the phase to Connected, whether   *)
(* on_connect returned true or false: a refused connection (false) does    *)
(* not keep the session in SessionInit.                                    *)
(***************************************************************************)
ConnectionInitStep == handled' = Append(handled, "ConnectionInit")

OnConnectOnceThenConnected ==
    ConnectionInitStep =>
        /\ Len(session'.handler) = Len(session.handler) + 1
        /\ SubSeq(session'.handler, 1, Len(session.handler)) = session.handler
        /\ session'.phase = "Connected"

C37_ConnectionInitConnects == [][OnConnectOnceThenConnected]_vars

\* The one connection_init was refused by on_connect, and the session is
\* Connected.
C37_Witness ==
    /\ handled = <<"ConnectionInit">>
    /\ session.handler = <<FALSE>>
    /\ session.phase = "Connected"

(***************************************************************************)
(* C38.  handle_request on a start, stop or connection_terminate message   *)
(* leaves the phase of the session unchanged and does not call on_connect, *)
(* in every phase; in particular a start message is accepted while the     *)
(* phase is still SessionInit.                                             *)
(***************************************************************************)
OtherStep ==
    \E type_name \in {"Start", "Stop", "ConnectionTerminate"} :
        handled' = Append(handled, type_name)

OtherRequestsChangeNothing == OtherStep => session' = session

C38_OtherRequestsChangeNothing == [][OtherRequestsChangeNothing]_vars

\* start, stop and connection_terminate handled before any connection_init:
\* the session is still in SessionInit and on_connect was never called.
C38_Witness ==
    /\ handled = <<"Start", "Stop", "ConnectionTerminate">>
    /\ session = new


(***************************************************************************)
(* C39.  GraphQLRequest::variables returns the empty variable mapping when *)
(* the request has no `variables` value or when that value is not an       *)
(* object, and otherwise returns exactly the name-to-value pairs of the    *)
(* object; a malformed variables value never produces an error.            *)
(***************************************************************************)
VariablesCalled == "variables" \in DOMAIN request /\ output # NotCalled

HasObjectVariables == request.variables.some /\ request.variables.v.t = "Object"

PairsOf(m) == {<<name, m[name]>> : name \in DOMAIN m}

C39_VariablesOfObjectOrEmpty ==
    VariablesCalled =>
        /\ output.t = "Variables"
        /\ ~HasObjectVariables => DOMAIN output.map = {}
        /\ HasObjectVariables =>
               LET o == request.variables.v.o
                   m == output.map
               IN  /\ DOMAIN m = {o[n].k : n \in 1..Len(o)}
                   /\ \A n \in 1..Len(o) :
                          (\A j \in (n + 1)..Len(o) : o[j].k # o[n].k) => m[o[n].k] = o[n].v
                   /\ Distinct(Keys(o)) =>
                          PairsOf(m) = {<<o[n].k, o[n].v>> : n \in 1..Len(o)}

\* variables = {"a": null, "b": []} gave the mapping a -> null, b -> [].
C39_Witness ==
    /\ VariablesCalled
    /\ HasObjectVariables
    /\ request.variables.v.o = <<KV("a", Null), KV("b", List(<<>>))>>
    /\ DOMAIN output.map = {"a", "b"}
    /\ output.map["a"] = Null
    /\ output.map["b"] = List(<<>>)

====
